---- MODULE Spec2Model ----
(***************************************************************************)
(* control-finance: the installment splitter, the billing-date rule and    *)
(* the batch scope resolution of the dashboard.                            *)
(*                                                                         *)
(* Three revisions of FinanceService.addTransaction are in the sources:    *)
(*   addTransaction            src/src/app/services/finance.service.ts     *)
(*   addTransactionLegacy      src/src/services/finance.service.ts:247     *)
(*   addTransactionLegacyMeta  src/src/services/finance.service.ts:529     *)
(* The first is the one the DashboardComponent calls; the other two are    *)
(* called by the AppComponent revisions.                                   *)
(***************************************************************************)
EXTENDS Integers, Sequences, FiniteSets, TLC

(***************************************************************************)
(* Bounds of the model.                                                    *)
(***************************************************************************)
\* installment counts offered to the form range over MinInstallments..MaxInstallments
MaxInstallments == 4
\* years of the purchase dates: FirstYear..FirstYear+YearSpan (2024 is a leap year)
YearSpan == 1
\* an amount is a whole number of ticks; one cent is Scale ticks.  A binary64
\* quotient is exact to far less than one tick for every amount of the model.
Scale == 100

FirstYear == 2023
MinInstallments == 0 - 1

\* the records the API ever stores in the dashboard specifications
MaxTx == 4
\* the submissions of the create form in the dashboard specifications
MaxCreates == 2
\* the months the dashboard can be moved forward from the month of today
MonthSpan == 4
\* the same, where rows are paid
PaySpan == 1
\* today = new Date(): November 2023 (month index 10)
TodayYear == 2023
TodayMonth == 10
\* the day of today, where the calendar starts: viewDate = signal(new Date())
TodayDay == 15

Null == "null"
\* no addTransaction call yet
NoCall == [rev |-> "none"]

CardIds == {"c1", "c2"}
ClosingDays == {1, 5, 31}
PurchaseDays == {1, 4, 5, 28, 29, 30, 31}
AmountsInCents == {1, 30000}
Categories == {"cat1"}
Owners == {"o1"}
Bases == {"tv"}
PaymentMethods == {"CREDIT_CARD", "PIX", "BOLETO", "CASH", "DEBIT_CARD"}
GroupIds == {"g1", "g2"}

\* the card lists of the model: the closing day of every card
NoCards == [c \in {} |-> 0]
CardLists == { f \in [CardIds -> ClosingDays] : f["c1"] < f["c2"] } \cup {NoCards}

Years == FirstYear..(FirstYear + YearSpan)
InstallmentInputs == MinInstallments..MaxInstallments

VARIABLES
  cards,                \* FinanceService.cards: closingDay of every card
  call,                 \* the handler that ran last, with its arguments and locals
  requests,             \* the POST / PATCH / DELETE requests that handler issued, in order
  server,               \* the records the API holds, in the order GET /transactions lists them
  nextId,               \* how many records the API has stored so far, plus one
  created,              \* how many times the create form has been submitted
  transactions,         \* FinanceService._transactions: the in-memory ledger
  selectedMonth,        \* DashboardComponent.selectedMonth (0..11)
  selectedYear,         \* DashboardComponent.selectedYear
  selectedDay,          \* DashboardComponent.selectedDay (0 for null)
  selectedCardId,       \* DashboardComponent.selectedCardId
  selectedOwnerId,      \* DashboardComponent.selectedOwnerId
  searchQuery,          \* DashboardComponent.searchQuery, character by character
  statusFilter,         \* DashboardComponent.statusFilter
  activeModal,          \* DashboardComponent.activeModal
  pendingAction,        \* DashboardComponent.pendingAction
  batchEditScope,       \* DashboardComponent.batchEditScope
  editingTransactionId, \* DashboardComponent.editingTransactionId
  isSaving,             \* DashboardComponent.isSaving
  sortConfig,           \* DashboardComponent.sortConfig: key and direction
  loads,                \* the GETs of loadByMonth, in the order they were issued: the
                        \* month asked for, the sends so far, and where the request is
  viewDate,             \* CalendarViewComponent.viewDate
  calendarTransactions  \* CalendarViewComponent.calendarTransactions

serverVars == <<server, nextId>>
viewVars   == <<selectedMonth, selectedYear, selectedDay, selectedCardId, selectedOwnerId,
                searchQuery, statusFilter>>
modalVars  == <<activeModal, pendingAction, batchEditScope, editingTransactionId>>
\* what only the handlers of the later specifications change
calendarVars == <<viewDate, calendarTransactions>>
restVars   == <<sortConfig, loads, calendarVars>>
dashVars   == <<serverVars, created, transactions, viewVars, modalVars, isSaving, restVars>>

vars == <<cards, call, requests, dashVars>>

(***************************************************************************)
(* The JavaScript Date constructor, new Date(year, monthIndex, day): month *)
(* indexes beyond 0..11 and days beyond the month's length carry over.     *)
(***************************************************************************)
IsLeap(y) == (y % 4 = 0 /\ y % 100 # 0) \/ y % 400 = 0

daysInMonth(y, m) ==
  IF m = 1 THEN (IF IsLeap(y) THEN 29 ELSE 28)
  ELSE IF m \in {3, 5, 8, 10} THEN 30 ELSE 31

MonthNorm(y, m) == [y |-> y + (m \div 12), m |-> m % 12]

RECURSIVE DayNorm(_, _, _)
DayNorm(y, m, d) ==
  IF d < 1
    THEN LET p == MonthNorm(y, m - 1) IN DayNorm(p.y, p.m, d + daysInMonth(p.y, p.m))
  ELSE IF d > daysInMonth(y, m)
    THEN LET n == MonthNorm(y, m + 1) IN DayNorm(n.y, n.m, d - daysInMonth(y, m))
  ELSE [y |-> y, m |-> m, d |-> d]

\* new Date(y, m, d) read back with getFullYear / getMonth / getDate
NewDate(y, m, d) == LET n == MonthNorm(y, m) IN DayNorm(n.y, n.m, d)

\* `${y}-${m}-${d}T12:00:00Z`: the month is written 1-based
FormatDate(date) == [y |-> date.y, m |-> date.m + 1, d |-> date.d]

\* dateStr.split('-') with parseInt: the month index is the written month - 1
ParseDateStr(ds) == [year |-> ds.y, month |-> ds.m - 1, day |-> ds.d]

\* the value of an <input type="date">: a real calendar date, written 1-based
DateStrings ==
  { [y |-> y, m |-> m + 1, d |-> d] :
      <<y, m, d>> \in { t \in Years \X (0..11) \X PurchaseDays :
                          t[3] <= daysInMonth(t[1], t[2]) } }

(***************************************************************************)
(* A description is its base text followed by the "(i/N)" suffixes that    *)
(* were appended to it.                                                    *)
(***************************************************************************)
Desc(base) == [base |-> base, sfx |-> <<>>]
WithSuffix(desc, i, n) == [desc EXCEPT !.sfx = Append(@, <<i, n>>)]


(***************************************************************************)
(* FinanceService.addTransaction, src/src/app/services/finance.service.ts  *)
(***************************************************************************)
\* mutant: the default applies to negative counts only, a count of 0 is kept
totalInstallments_ZeroKept(type, installments) ==
  IF type = "EXPENSE" THEN (IF installments >= 0 THEN installments ELSE 1) ELSE 1

\* const totalInstallments = (type === 'EXPENSE') ? (installments > 0 ? installments : 1) : 1
totalInstallments(type, installments) ==
  IF type = "EXPENSE" THEN (IF installments > 0 THEN installments ELSE 1) ELSE 1

\* the binary64 quotient a / n, to the nearest tick
Quotient(a, n) == (2 * a + n) \div (2 * n)

\* mutant: every installment carries the whole amount
amountPerInstallment_Undivided(amount, total) == amount

\* const amountPerInstallment = amount / totalInstallments
amountPerInstallment(amount, total) == Quotient(amount, total)

\* mutant: a group id also for a single installment
groupIdOf_Always(total, uuid) == uuid

\* const groupId = totalInstallments > 1 ? this.generateUUID() : undefined
groupIdOf(total, uuid) == IF total > 1 THEN uuid ELSE Null

\* const lastDayOfMonth = new Date(year, month + i + 1, 0).getDate()
lastDayOfMonth(year, month, i) == NewDate(year, month + i + 1, 0).d

\* mutant: the anchor day is used unclamped
finalDay_Unclamped(day, last) == day

\* const finalDay = Math.min(day, lastDayOfMonth)
finalDay(day, last) == IF day < last THEN day ELSE last

\* mutant: the month of the last-day computation, month + i + 1, is used
effectiveDate_MonthAfter(year, month, i, fday) == NewDate(year, month + i + 1, fday)

\* const effectiveDate = new Date(year, month + i, finalDay)
effectiveDate(year, month, i, fday) == NewDate(year, month + i, fday)

\* description: totalInstallments > 1 ? `${description} (${i + 1}/${totalInstallments})` : description
descriptionOf(description, i, total) ==
  IF total > 1 THEN WithSuffix(description, i + 1, total) ELSE description

\* creditCardId: (type.toUpperCase() === 'EXPENSE' && cardId) ? cardId : null
creditCardIdOf(type, cardId) == IF type = "EXPENSE" /\ cardId # Null THEN cardId ELSE Null

\* mutant: the last installment takes what the division left over
payload_RemainderOnLast(a, i, total, groupId) ==
  LET p    == ParseDateStr(a.dateStr)
      last == lastDayOfMonth(p.year, p.month, i)
      fday == finalDay(p.day, last)
      eff  == effectiveDate(p.year, p.month, i, fday)
      each == amountPerInstallment(a.amount, total)
  IN [ description   |-> descriptionOf(a.description, i, total),
       amount        |-> IF i = total - 1 THEN a.amount - (total - 1) * each ELSE each,
       type          |-> a.type,
       purchaseDate  |-> FormatDate(eff),
       categoryId    |-> a.categoryId,
       ownerId       |-> a.ownerId,
       creditCardId  |-> creditCardIdOf(a.type, a.cardId),
       paymentMethod |-> a.paymentMethod,
       groupId       |-> groupId,
       paid          |-> a.paid ]

\* the payload of installment i (0-based) of the loop
payload(a, i, total, groupId) ==
  LET p    == ParseDateStr(a.dateStr)
      last == lastDayOfMonth(p.year, p.month, i)
      fday == finalDay(p.day, last)
      eff  == effectiveDate(p.year, p.month, i, fday)
  IN [ description   |-> descriptionOf(a.description, i, total),
       amount        |-> amountPerInstallment(a.amount, total),
       type          |-> a.type,
       purchaseDate  |-> FormatDate(eff),
       categoryId    |-> a.categoryId,
       ownerId       |-> a.ownerId,
       creditCardId  |-> creditCardIdOf(a.type, a.cardId),
       paymentMethod |-> a.paymentMethod,
       groupId       |-> groupId,
       paid          |-> a.paid ]

\* the requests array handed to forkJoin; uuid is what generateUUID() returns
addTransaction(a, uuid) ==
  LET total   == totalInstallments(a.type, a.installments)
      groupId == groupIdOf(total, uuid)
  IN [ k \in 1..total |-> payload(a, k - 1, total, groupId) ]

(***************************************************************************)
(* FinanceService.addTransaction, src/src/services/finance.service.ts:247  *)
(* (the revision that resolves the billing month on the client).           *)
(***************************************************************************)
\* mutant: a purchase on the closing day itself stays in the purchase month
startMonthLegacy_AfterClosingOnly(type, cardId, month, day, cardList) ==
  IF type = "expense" /\ cardId # Null
    THEN (IF cardId \in DOMAIN cardList /\ day > cardList[cardId] THEN month + 1 ELSE month)
    ELSE month

\* if (type === 'expense' && cardId) { card = find(...); if (card && day >= card.closingDay) startMonth++ }
startMonthLegacy(type, cardId, month, day, cardList) ==
  IF type = "expense" /\ cardId # Null
    THEN (IF cardId \in DOMAIN cardList /\ day >= cardList[cardId] THEN month + 1 ELSE month)
    ELSE month

\* const totalInstallments = (type === 'expense' && cardId) ? (installments > 0 ? installments : 1) : 1
totalInstallmentsLegacy(type, cardId, installments) ==
  IF type = "expense" /\ cardId # Null
    THEN (IF installments > 0 THEN installments ELSE 1)
    ELSE 1

\* type.toUpperCase()
toUpperCase(type) == IF type = "expense" THEN "EXPENSE" ELSE "INCOME"

payloadLegacy(a, i, total, groupId, cardList) ==
  LET p          == ParseDateStr(a.dateStr)
      startMonth == startMonthLegacy(a.type, a.cardId, p.month, p.day, cardList)
      startYear  == p.year
      last       == lastDayOfMonth(startYear, startMonth, i)
      fday       == finalDay(p.day, last)
      eff        == effectiveDate(startYear, startMonth, i, fday)
  IN [ description  |-> descriptionOf(a.description, i, total),
       amount       |-> amountPerInstallment(a.amount, total),
       type         |-> toUpperCase(a.type),
       purchaseDate |-> FormatDate(eff),
       category     |-> a.categoryId,
       owner        |-> a.ownerId,
       creditCard   |-> IF a.type = "expense" /\ a.cardId # Null THEN a.cardId ELSE Null,
       groupId      |-> groupId ]

addTransactionLegacy(a, uuid, cardList) ==
  LET total   == totalInstallmentsLegacy(a.type, a.cardId, a.installments)
      groupId == groupIdOf(total, uuid)
  IN [ k \in 1..total |-> payloadLegacy(a, k - 1, total, groupId, cardList) ]

(***************************************************************************)
(* FinanceService.addTransaction, src/src/services/finance.service.ts:529  *)
(* (the revision whose payload carries the installment numbers and the     *)
(* effective month).                                                       *)
(***************************************************************************)
\* const effectiveDate = new Date(startYear, startMonth + i, 1)
effectiveDateMeta(startYear, startMonth, i) == NewDate(startYear, startMonth + i, 1)

payloadLegacyMeta(a, i, total, groupId, cardList) ==
  LET p          == ParseDateStr(a.dateStr)
      startMonth == startMonthLegacy(a.type, a.cardId, p.month, p.day, cardList)
      eff        == effectiveDateMeta(p.year, startMonth, i)
  IN [ description        |-> descriptionOf(a.description, i, total),
       amount             |-> amountPerInstallment(a.amount, total),
       type               |-> toUpperCase(a.type),
       purchaseDate       |-> a.dateStr,
       category           |-> a.categoryId,
       ownerId            |-> a.ownerId,
       cardId             |-> IF a.type = "income" THEN Null ELSE a.cardId,
       groupId            |-> groupId,
       installmentCurrent |-> i + 1,
       installmentTotal   |-> total,
       effectiveMonth     |-> eff.m,
       effectiveYear      |-> eff.y ]

addTransactionLegacyMeta(a, uuid, cardList) ==
  LET total   == totalInstallmentsLegacy(a.type, a.cardId, a.installments)
      groupId == groupIdOf(total, uuid)
  IN [ k \in 1..total |-> payloadLegacyMeta(a, k - 1, total, groupId, cardList) ]

(***************************************************************************)
(* The create branch of onSubmitTransaction.                               *)
(***************************************************************************)
\* DashboardComponent.onSubmitTransaction: the automatic paid flag.  The test
\* (finalPaymentMethod === 'CREDIT_CARD' || 'BOLETO') is truthy for every method.
isPaidAutomatic(isExpense, finalPaymentMethod) ==
  IF ~isExpense THEN TRUE
  ELSE IF (finalPaymentMethod = "CREDIT_CARD") \/ TRUE
         THEN FALSE
         ELSE finalPaymentMethod \in {"PIX", "CASH", "DEBIT_CARD"}

AllForms ==
  [ description   : {Desc(b) : b \in Bases},
    amount        : {c * Scale : c \in AmountsInCents},
    type          : {"EXPENSE", "INCOME"},
    date          : DateStrings,
    ownerId       : Owners,
    categoryId    : Categories,
    useCard       : BOOLEAN,
    creditCardId  : CardIds \cup {Null},
    paymentMethod : PaymentMethods,
    installments  : InstallmentInputs ]

AllFormsLegacy ==
  [ description  : {Desc(b) : b \in Bases},
    amount       : {c * Scale : c \in AmountsInCents},
    type         : {"expense", "income"},
    date         : DateStrings,
    ownerId      : Owners,
    categoryId   : Categories,
    useCard      : BOOLEAN,
    cardId       : CardIds \cup {Null},
    installments : InstallmentInputs ]

\* the card the form holds when the card switch is on: cards()[0]?.id || '' at
\* first, then any card of the list
CardChoices(cardList, useCard) ==
  IF useCard /\ DOMAIN cardList # {} THEN DOMAIN cardList ELSE {Null}

\* the values of the transaction form of the DashboardComponent
Forms(cardList) ==
  { f \in AllForms : f.creditCardId \in CardChoices(cardList, f.useCard) }

\* the values of the transaction form of the AppComponent, with its useCard signal
FormsLegacy(cardList) ==
  { f \in AllFormsLegacy : f.cardId \in CardChoices(cardList, f.useCard) }

\* mutant: the payment method is the one of the form, card or no card
createArgs_MethodOfForm(val) ==
  LET isExpense          == val.type = "EXPENSE"
      usingCard          == isExpense /\ val.useCard
      finalPaymentMethod == val.paymentMethod
  IN [ rev           |-> "app",
       description   |-> val.description,
       amount        |-> val.amount,
       type          |-> val.type,
       dateStr       |-> val.date,
       categoryId    |-> val.categoryId,
       ownerId       |-> val.ownerId,
       cardId        |-> IF usingCard THEN val.creditCardId ELSE Null,
       installments  |-> IF isExpense THEN val.installments ELSE 1,
       paymentMethod |-> finalPaymentMethod,
       paid          |-> isPaidAutomatic(isExpense, finalPaymentMethod) ]

\* the arguments onSubmitTransaction passes to addTransaction
createArgs(val) ==
  LET isExpense          == val.type = "EXPENSE"
      usingCard          == isExpense /\ val.useCard
      finalPaymentMethod == IF usingCard THEN "CREDIT_CARD" ELSE val.paymentMethod
  IN [ rev           |-> "app",
       description   |-> val.description,
       amount        |-> val.amount,
       type          |-> val.type,
       dateStr       |-> val.date,
       categoryId    |-> val.categoryId,
       ownerId       |-> val.ownerId,
       cardId        |-> IF usingCard THEN val.creditCardId ELSE Null,
       installments  |-> IF isExpense THEN val.installments ELSE 1,
       paymentMethod |-> finalPaymentMethod,
       paid          |-> isPaidAutomatic(isExpense, finalPaymentMethod) ]

\* AppComponent.onSubmitTransaction, create branch
createArgsLegacy(val, rev) ==
  LET isExpense == val.type = "expense"
      usingCard == isExpense /\ val.useCard
  IN [ rev          |-> rev,
       description  |-> val.description,
       amount       |-> val.amount,
       type         |-> val.type,
       dateStr      |-> val.date,
       categoryId   |-> val.categoryId,
       ownerId      |-> val.ownerId,
       cardId       |-> IF usingCard THEN val.cardId ELSE Null,
       installments |-> IF usingCard THEN val.installments ELSE 1 ]

(***************************************************************************)
(* The state of the DashboardComponent and of the FinanceService after     *)
(* construction, before the API holds any record.                          *)
(***************************************************************************)
\* pendingAction is null
NoAction == [type |-> "none"]

\* sortConfig = signal({ key: 'date', direction: 'desc' })
InitRest ==
  /\ sortConfig = [key |-> "date", direction |-> "desc"]
  /\ loads = <<>>
  /\ viewDate = [y |-> TodayYear, m |-> TodayMonth, d |-> TodayDay]
  /\ calendarTransactions = <<>>

InitDashboard ==
  /\ server = <<>>
  /\ nextId = 1
  /\ created = 0
  /\ transactions = <<>>
  /\ selectedMonth = TodayMonth
  /\ selectedYear = TodayYear
  /\ selectedDay = 0
  /\ selectedCardId = Null
  /\ selectedOwnerId = Null
  /\ searchQuery = <<>>
  /\ statusFilter = "all"
  /\ activeModal = Null
  /\ pendingAction = NoAction
  /\ batchEditScope = Null
  /\ editingTransactionId = Null
  /\ isSaving = FALSE
  /\ InitRest

(***************************************************************************)
(* SpecSplit: one submission of the transaction form, in each revision.    *)
(***************************************************************************)
InitSplit ==
  /\ cards \in CardLists
  /\ call = NoCall
  /\ requests = <<>>
  /\ InitDashboard

SubmitCreate ==
  /\ call = NoCall
  /\ \E val \in Forms(cards), uuid \in GroupIds :
       /\ call' = createArgs(val)
       /\ requests' = addTransaction(createArgs(val), uuid)
  /\ UNCHANGED <<cards, dashVars>>

SubmitCreateLegacy ==
  /\ call = NoCall
  /\ \E val \in FormsLegacy(cards), uuid \in GroupIds :
       /\ call' = createArgsLegacy(val, "legacy")
       /\ requests' = addTransactionLegacy(createArgsLegacy(val, "legacy"), uuid, cards)
  /\ UNCHANGED <<cards, dashVars>>

SubmitCreateLegacyMeta ==
  /\ call = NoCall
  /\ \E val \in FormsLegacy(cards), uuid \in GroupIds :
       /\ call' = createArgsLegacy(val, "meta")
       /\ requests' = addTransactionLegacyMeta(createArgsLegacy(val, "meta"), uuid, cards)
  /\ UNCHANGED <<cards, dashVars>>

NextSplit == SubmitCreate \/ SubmitCreateLegacy \/ SubmitCreateLegacyMeta

SpecSplit == InitSplit /\ [][NextSplit]_vars

(***************************************************************************)
(* The API behind FinanceService.API_URL.  It stores what it is sent under *)
(* an id of its own and returns it as stored; the records it returns carry *)
(* no billingDate and no installment numbers, so that mapTransaction falls *)
(* back to the purchase date and to installment 1 of 1.                    *)
(***************************************************************************)
TxIds == <<"t1", "t2", "t3", "t4", "t5", "t6", "t7", "t8">>
Uuids == <<"g1", "g2", "g3", "g4", "g5", "g6", "g7", "g8">>

\* the record the API stores for a POST body
stored(id, body) ==
  [ id            |-> id,
    description   |-> body.description,
    amount        |-> body.amount,
    type          |-> body.type,
    purchaseDate  |-> body.purchaseDate,
    categoryId    |-> body.categoryId,
    ownerId       |-> body.ownerId,
    creditCardId  |-> body.creditCardId,
    paymentMethod |-> body.paymentMethod,
    groupId       |-> body.groupId,
    paid          |-> body.paid ]

\* POST API_URL, once for each body of bodies whose index is in applied
RECURSIVE apiPost(_, _, _, _)
apiPost(db, n, bodies, applied) ==
  IF bodies = <<>> THEN db
  ELSE LET k == Len(bodies)
           rest == apiPost(db, n, SubSeq(bodies, 1, k - 1), applied)
       IN IF k \in applied
            THEN Append(rest, stored(TxIds[n + Cardinality({j \in applied : j < k})], bodies[k]))
            ELSE rest

\* PATCH API_URL/id: the fields of the body replace the stored ones
merge(t, body) == [ f \in DOMAIN t |-> IF f \in DOMAIN body THEN body[f] ELSE t[f] ]

apiPatch(db, id, body) ==
  [ k \in 1..Len(db) |-> IF db[k].id = id THEN merge(db[k], body) ELSE db[k] ]

\* the PATCH requests of reqs whose index is in applied
RECURSIVE apiPatchAll(_, _, _)
apiPatchAll(db, reqs, applied) ==
  IF reqs = <<>> THEN db
  ELSE LET k == Len(reqs)
           rest == apiPatchAll(db, SubSeq(reqs, 1, k - 1), applied)
       IN IF k \in applied THEN apiPatch(rest, reqs[k].id, reqs[k].body) ELSE rest

\* DELETE API_URL/id for every id of ids
apiDelete(db, ids) == SelectSeq(db, LAMBDA t : t.id \notin ids)

\* GET API_URL/filter?month=&year=: the records of that month (month 1..12)
apiFilter(db, javaMonth, year) ==
  SelectSeq(db, LAMBDA t : t.purchaseDate.m = javaMonth /\ t.purchaseDate.y = year)

\* the ids a sequence of records or of requests names
idsOf(ts) == { ts[k].id : k \in 1..Len(ts) }

\* forkJoin(requests): the requests the API carried out, and whether every one
\* of them answered.  The first failure ends the join and cancels what is still in
\* flight; what was carried out before stays carried out.
Outcomes_NextOnAny(n) ==
  { [ok |-> ok, applied |-> a] : <<ok, a>> \in BOOLEAN \X SUBSET (1..n) }

\* mutant: next runs as soon as the first request was answered
Outcomes_NextOnFirst(n) ==
  { [ok |-> 1 \in a, applied |-> a] : a \in SUBSET (1..n) }

Outcomes(n) ==
  { [ok |-> ok, applied |-> a] :
      <<ok, a>> \in { o \in BOOLEAN \X SUBSET (1..n) : o[1] => o[2] = 1..n } }

(***************************************************************************)
(* FinanceService, src/src/app/services/finance.service.ts: the reads.     *)
(***************************************************************************)
\* new Date(iso).getUTCMonth() / getUTCFullYear() of a `...T12:00:00Z` string
mapTransaction(t) ==
  LET dateRef == ParseDateStr(IF "billingDate" \in DOMAIN t THEN t.billingDate ELSE t.purchaseDate)
  IN [ id                 |-> t.id,
       description        |-> t.description,
       amount             |-> t.amount,
       type               |-> t.type,
       paymentMethod      |-> t.paymentMethod,
       paid               |-> t.paid,
       purchaseDate       |-> t.purchaseDate,
       categoryId         |-> t.categoryId,
       ownerId            |-> t.ownerId,
       creditCardId       |-> t.creditCardId,
       groupId            |-> t.groupId,
       categoryName       |-> IF "categoryName" \in DOMAIN t THEN t.categoryName ELSE <<>>,
       ownerName          |-> IF "ownerName" \in DOMAIN t THEN t.ownerName ELSE <<>>,
       effectiveMonth     |-> dateRef.month,
       effectiveYear      |-> dateRef.year,
       installmentCurrent |-> IF "installmentCurrent" \in DOMAIN t THEN t.installmentCurrent ELSE 1,
       installmentTotal   |-> IF "installmentTotal" \in DOMAIN t THEN t.installmentTotal ELSE 1 ]

mapAll(data) == [ k \in 1..Len(data) |-> mapTransaction(data[k]) ]

\* loadByMonth(month, year): what _transactions is set to
loadByMonth(db, month, year) ==
  LET javaMonth == month + 1 IN mapAll(apiFilter(db, javaMonth, year))

\* new Date(purchaseDate).getTime(), as far as two dates compare
getTime(ds) == (ds.y * 12 + ds.m) * 32 + ds.d

\* mutant: the comparison is turned round, later purchases come first
RECURSIVE insertByDate_LatestFirst(_, _)
insertByDate_LatestFirst(sorted, t) ==
  IF sorted = <<>> THEN <<t>>
  ELSE IF getTime(t.purchaseDate) > getTime(Head(sorted).purchaseDate)
    THEN <<t>> \o sorted
    ELSE <<Head(sorted)>> \o insertByDate_LatestFirst(Tail(sorted), t)

\* Array.prototype.sort by purchase date: stable
RECURSIVE insertByDate(_, _)
insertByDate(sorted, t) ==
  IF sorted = <<>> THEN <<t>>
  ELSE IF getTime(t.purchaseDate) < getTime(Head(sorted).purchaseDate)
    THEN <<t>> \o sorted
    ELSE <<Head(sorted)>> \o insertByDate(Tail(sorted), t)

RECURSIVE sortByDate(_)
sortByDate(ts) ==
  IF ts = <<>> THEN <<>>
  ELSE insertByDate(sortByDate(SubSeq(ts, 1, Len(ts) - 1)), ts[Len(ts)])

\* fetchGroup(groupId): GET API_URL, filter by groupId, map, sort by purchaseDate
fetchGroup(db, groupId) ==
  sortByDate(mapAll(SelectSeq(db, LAMBDA t : t.groupId = groupId)))

(***************************************************************************)
(* FinanceService: the local patches of the ledger.  DashboardComponent    *)
(* calls them; their bodies are not in the service file.                   *)
(***************************************************************************)
\* updateTransactionsLocally(ids, patch): the patch is merged into the ledger entries named
updateTransactionsLocally(ledger, ids, patch) ==
  [ k \in 1..Len(ledger) |-> IF ledger[k].id \in ids THEN merge(ledger[k], patch) ELSE ledger[k] ]

\* updateTransactionLocally(id, updated)
updateTransactionLocally(ledger, id, updated) == updateTransactionsLocally(ledger, {id}, updated)

\* deleteTransactionLocally(ids): the ledger entries named are dropped
deleteTransactionLocally(ledger, ids) == SelectSeq(ledger, LAMBDA t : t.id \notin ids)

(***************************************************************************)
(* DashboardComponent, src/src/app/pages/dashboard/dashboard.component.ts  *)
(***************************************************************************)
\* Texts are sequences of characters; '' and undefined are both <<>>.  The texts of
\* the model, by the name the model gives them:
Chars ==
  ("tv" :> <<"t", "v">>) @@ ("TV Box" :> <<"T", "V", " ", "B", "o", "x">>) @@
  ("luz" :> <<"l", "u", "z">>) @@ ("cat1" :> <<"c", "a", "t", "1">>) @@
  ("cat9" :> <<"c", "a", "t", "9">>) @@ ("Outros" :> <<"O", "u", "t", "r", "o", "s">>) @@
  ("Casa" :> <<"C", "a", "s", "a">>) @@ ("Ana" :> <<"A", "n", "a">>) @@
  ("Bia" :> <<"B", "i", "a">>) @@ ("-" :> <<"-">>)

Digits == <<"1", "2", "3", "4", "5", "6", "7", "8", "9">>

\* the text of a description: the base and its " (i/N)" suffixes
RECURSIVE suffixText(_)
suffixText(sfx) ==
  IF sfx = <<>> THEN <<>>
  ELSE <<" ", "(", Digits[Head(sfx)[1]], "/", Digits[Head(sfx)[2]], ")">> \o suffixText(Tail(sfx))

text(description) == Chars[description.base] \o suffixText(description.sfx)

UpperCase == <<"A", "B", "C", "O", "T", "V">>
LowerCase == <<"a", "b", "c", "o", "t", "v">>

\* String.prototype.toLowerCase()
toLowerCaseText(str) ==
  [ k \in 1..Len(str) |->
      IF \E u \in 1..Len(UpperCase) : UpperCase[u] = str[k]
        THEN LowerCase[CHOOSE u \in 1..Len(UpperCase) : UpperCase[u] = str[k]]
        ELSE str[k] ]

\* String.prototype.trim()
RECURSIVE trimStart(_)
trimStart(str) == IF str # <<>> /\ Head(str) = " " THEN trimStart(Tail(str)) ELSE str

RECURSIVE trimEnd(_)
trimEnd(str) ==
  IF str # <<>> /\ str[Len(str)] = " " THEN trimEnd(SubSeq(str, 1, Len(str) - 1)) ELSE str

trim(str) == trimEnd(trimStart(str))

\* String.prototype.includes(query)
includes(str, query) ==
  \E at \in 0..(Len(str) - Len(query)) : SubSeq(str, at + 1, at + Len(query)) = query

\* FinanceService.categories and owners, as loaded: the name under each id
CategoryTable == ("cat1" :> Chars["Casa"])
OwnerTable == ("o1" :> Chars["Ana"]) @@ ("o2" :> Chars["Bia"])

\* getCategoryName(idOrName), getOwnerName(id)
getCategoryName(idOrName) ==
  IF idOrName = Null THEN Chars["Outros"]
  ELSE IF idOrName \in DOMAIN CategoryTable /\ CategoryTable[idOrName] # <<>>
    THEN CategoryTable[idOrName]
    ELSE Chars[idOrName]

getOwnerName(id) ==
  IF id = Null THEN Chars["-"]
  ELSE IF id \in DOMAIN OwnerTable /\ OwnerTable[id] # <<>> THEN OwnerTable[id]
  ELSE Chars["-"]

\* the rows of the list: const filtered of filteredTransactions
filtered_DateUnchecked ==
  LET query == trim(toLowerCaseText(searchQuery))
  IN SelectSeq(transactions, LAMBDA t :
       /\ (selectedDay # 0 => t.purchaseDate.d = selectedDay)
       /\ (selectedCardId # Null => t.creditCardId = selectedCardId)
       /\ (selectedOwnerId # Null => t.ownerId = selectedOwnerId)
       /\ ~(statusFilter = "paid" /\ ~t.paid)
       /\ ~(statusFilter = "pending" /\ t.paid)
       /\ (query # <<>> =>
             LET descText  == toLowerCaseText(text(t.description))
                 catText   == toLowerCaseText(IF t.categoryName # <<>> THEN t.categoryName
                                              ELSE getCategoryName(t.categoryId))
                 ownerText == toLowerCaseText(IF t.ownerName # <<>> THEN t.ownerName
                                              ELSE getOwnerName(t.ownerId))
             IN includes(descText, query) \/ includes(catText, query)
                  \/ includes(ownerText, query)))

filtered ==
  LET query == trim(toLowerCaseText(searchQuery))
  IN SelectSeq(transactions, LAMBDA t :
       /\ t.effectiveMonth = selectedMonth /\ t.effectiveYear = selectedYear
       /\ (selectedDay # 0 => t.purchaseDate.d = selectedDay)
       /\ (selectedCardId # Null => t.creditCardId = selectedCardId)
       /\ (selectedOwnerId # Null => t.ownerId = selectedOwnerId)
       /\ ~(statusFilter = "paid" /\ ~t.paid)
       /\ ~(statusFilter = "pending" /\ t.paid)
       /\ (query # <<>> =>
             LET descText  == toLowerCaseText(text(t.description))
                 catText   == toLowerCaseText(IF t.categoryName # <<>> THEN t.categoryName
                                              ELSE getCategoryName(t.categoryId))
                 ownerText == toLowerCaseText(IF t.ownerName # <<>> THEN t.ownerName
                                              ELSE getOwnerName(t.ownerId))
             IN includes(descText, query) \/ includes(catText, query)
                  \/ includes(ownerText, query)))

\* reduce((acc, t) => acc + t.amount, 0)
RECURSIVE sumAmounts(_)
sumAmounts(ts) == IF ts = <<>> THEN 0 ELSE Head(ts).amount + sumAmounts(Tail(ts))

\* totalIncome, totalExpense, balance
totalIncome_CardIgnored ==
  sumAmounts(SelectSeq(filtered, LAMBDA t : t.type = "INCOME"))

totalIncome ==
  IF selectedCardId # Null THEN 0
  ELSE sumAmounts(SelectSeq(filtered, LAMBDA t : t.type = "INCOME"))

totalExpense == sumAmounts(SelectSeq(filtered, LAMBDA t : t.type = "EXPENSE"))

balance == totalIncome - totalExpense

\* the colours of the loaded categories (Category.color)
CategoryColors == ("cat1" :> "#3b82f6")

\* getCategory(idOrName): the id of the category found by id, then by name, or Null
getCategory(idOrName) ==
  IF idOrName \in DOMAIN CategoryTable THEN idOrName
  ELSE IF \E c \in DOMAIN CategoryTable : CategoryTable[c] = Chars[idOrName]
    THEN CHOOSE c \in DOMAIN CategoryTable : CategoryTable[c] = Chars[idOrName]
    ELSE Null

\* const key = t.categoryId || 'Outros'
chartKey(t) == IF t.categoryId = Null THEN "Outros" ELSE t.categoryId

\* the keys of groups, in the order the loop first assigns them
RECURSIVE chartKeys(_)
chartKeys(expenses) ==
  IF expenses = <<>> THEN <<>>
  ELSE LET k == chartKey(Head(expenses))
       IN <<k>> \o SelectSeq(chartKeys(Tail(expenses)), LAMBDA x : x # k)

\* .sort((a, b) => b.value - a.value), stable
RECURSIVE sortByValueDesc(_)
sortByValueDesc(entries) ==
  IF entries = <<>> THEN <<>>
  ELSE LET h == Head(entries)
           rest == sortByValueDesc(Tail(entries))
           before == SelectSeq(rest, LAMBDA x : x.value > h.value)
           after == SelectSeq(rest, LAMBDA x : x.value <= h.value)
       IN before \o <<h>> \o after

\* categoryChartData; key is the key of Object.entries the entry was mapped from
categoryChartData ==
  LET expenses == SelectSeq(filtered, LAMBDA t : t.type = "EXPENSE")
      keys == chartKeys(expenses)
      entry(key) ==
        LET cat == getCategory(key)
        IN [key |-> key,
            label |-> IF cat # Null /\ CategoryTable[cat] # <<>> THEN CategoryTable[cat] ELSE Chars[key],
            value |-> sumAmounts(SelectSeq(expenses, LAMBDA t : chartKey(t) = key)),
            color |-> IF cat # Null THEN CategoryColors[cat] ELSE "#cbd5e1"]
  IN sortByValueDesc([i \in 1..Len(keys) |-> entry(keys[i])])

\* Array.prototype.findIndex(t => t.id === id): 0-based, -1 when there is none
findIndex(ts, id) ==
  IF \E k \in 1..Len(ts) : ts[k].id = id
    THEN (CHOOSE k \in 1..Len(ts) : ts[k].id = id /\ \A j \in 1..(k - 1) : ts[j].id # id) - 1
    ELSE 0 - 1

\* Array.prototype.slice(start, end): a negative index counts from the end
sliceIndex(len, i) == IF i < 0 THEN (IF len + i < 0 THEN 0 ELSE len + i) ELSE (IF i > len THEN len ELSE i)

slice(ts, start, end) == SubSeq(ts, sliceIndex(Len(ts), start) + 1, sliceIndex(Len(ts), end))

\* mutant: the target itself is left out of 'future'
futureFrom_AfterTarget(currentIndex) == currentIndex + 1

\* scope === 'future': groupTransactions.slice(currentIndex)
futureFrom(currentIndex) == currentIndex

\* mutant: the target itself is left out of 'past'
pastTo_BeforeTarget(currentIndex) == currentIndex

\* scope === 'past': groupTransactions.slice(0, currentIndex + 1)
pastTo(currentIndex) == currentIndex + 1

\* the targets of a scope, as executeBatchAction and onSubmitTransaction slice them
targetTransactions(groupTransactions, currentIndex, scope) ==
  IF scope = "all" THEN groupTransactions
  ELSE IF scope = "future"
    THEN slice(groupTransactions, futureFrom(currentIndex), Len(groupTransactions))
  ELSE IF scope = "past" THEN slice(groupTransactions, 0, pastTo(currentIndex))
  ELSE <<>>

BatchScopes == {"single", "all", "future", "past"}

\* what closeModal() sets
closeModal ==
  /\ activeModal' = Null
  /\ editingTransactionId' = Null
  /\ pendingAction' = NoAction
  /\ batchEditScope' = Null

\* the handler that ran, and the requests it issued
Did(handler, issued) == call' = handler /\ requests' = issued

\* the same, for a handler that leaves restVars alone
Ran(handler, issued) == Did(handler, issued) /\ UNCHANGED restVars

\* the handler whose subscription ended in next (no alert) or in error, where the
\* error callback shows alert(...)
Answered(handler, ok) == handler @@ [alert |-> ~ok]

DeleteRequests(ids) == [ k \in 1..Len(ids) |-> [method |-> "DELETE", id |-> ids[k]] ]

PatchRequests(ids, body) ==
  [ k \in 1..Len(ids) |-> [method |-> "PATCH", id |-> ids[k], body |-> body] ]

ids(ts) == [ k \in 1..Len(ts) |-> ts[k].id ]

\* the values the create form is submitted with in the dashboard specifications
DashForms(cardList, dates, types, sizes) ==
  { f \in [ description   : {Desc(b) : b \in Bases},
            amount        : {30000 * Scale},
            type          : types,
            date          : dates,
            ownerId       : Owners,
            categoryId    : Categories,
            useCard       : BOOLEAN,
            creditCardId  : CardIds \cup {Null},
            paymentMethod : {"PIX"},
            installments  : sizes ] :
      /\ f.creditCardId \in CardChoices(cardList, f.useCard)
      /\ (f.type = "INCOME" => ~f.useCard) }

\* openModal('transaction'): the form for a new transaction
openModal ==
  /\ activeModal = Null
  /\ activeModal' = "transaction"
  /\ editingTransactionId' = Null
  /\ batchEditScope' = Null
  /\ Ran([rev |-> "dashboard", name |-> "openModal"], <<>>)
  /\ UNCHANGED <<cards, created, serverVars, transactions, viewVars, pendingAction, isSaving>>

\* onSubmitTransaction, create branch: the POSTs are answered, then the month is loaded
onSubmitTransactionCreate(forms) ==
  /\ activeModal = "transaction"
  /\ editingTransactionId = Null
  /\ created < MaxCreates
  /\ created' = created + 1
  /\ \E val \in forms :
       LET a      == createArgs(val)
           bodies == addTransaction(a, Uuids[created + 1])
       IN /\ nextId + Len(bodies) - 1 <= MaxTx
          /\ server' = apiPost(server, nextId, bodies, 1..Len(bodies))
          /\ nextId' = nextId + Len(bodies)
          /\ transactions' = loadByMonth(server', selectedMonth, selectedYear)
          /\ Ran(a, bodies)
  /\ isSaving' = FALSE
  /\ closeModal
  /\ UNCHANGED <<cards, viewVars>>

\* onSubmitTransaction, create branch, when a POST is not answered: forkJoin errors,
\* the error callback shows the alert; the form stays open and the month is not loaded
onSubmitTransactionCreateError(forms) ==
  /\ activeModal = "transaction"
  /\ editingTransactionId = Null
  /\ created < MaxCreates
  /\ created' = created + 1
  /\ \E val \in forms :
       LET a      == createArgs(val)
           bodies == addTransaction(a, Uuids[created + 1])
       IN \E o \in Outcomes(Len(bodies)) :
            /\ ~o.ok
            /\ nextId + Len(bodies) - 1 <= MaxTx
            /\ server' = apiPost(server, nextId, bodies, o.applied)
            /\ nextId' = nextId + Cardinality(o.applied)
            /\ Ran(a @@ [name |-> "onSubmitTransaction", ok |-> FALSE, alert |-> TRUE], bodies)
  /\ isSaving' = FALSE
  /\ UNCHANGED <<cards, transactions, viewVars, modalVars>>

\* changeMonth(delta), within span months of the month of today
changeMonth(delta, span) ==
  /\ activeModal = Null
  /\ LET m0 == selectedMonth + delta
         m  == IF m0 > 11 THEN 0 ELSE IF m0 < 0 THEN 11 ELSE m0
         y  == IF m0 > 11 THEN selectedYear + 1 ELSE IF m0 < 0 THEN selectedYear - 1 ELSE selectedYear
         ahead == (y * 12 + m) - (TodayYear * 12 + TodayMonth)
     IN /\ ahead \in 0..span
        /\ selectedMonth' = m
        /\ selectedYear' = y
        /\ selectedDay' = 0
        /\ transactions' = loadByMonth(server, m, y)
  /\ Ran([rev |-> "dashboard", name |-> "changeMonth"], <<>>)
  /\ UNCHANGED <<cards, created, serverVars, selectedCardId, selectedOwnerId, searchQuery,
                 statusFilter, modalVars, isSaving>>

\* initiateDelete(transaction), on a row of the list
initiateDelete ==
  /\ activeModal = Null
  /\ \E k \in 1..Len(filtered) :
       pendingAction' = [type |-> "delete", transaction |-> filtered[k]]
  /\ activeModal' = "batch-confirm"
  /\ Ran([rev |-> "dashboard", name |-> "initiateDelete"], <<>>)
  /\ UNCHANGED <<cards, created, serverVars, transactions, viewVars, batchEditScope,
                 editingTransactionId, isSaving>>

\* initiateEdit(transaction), on a row of the list
initiateEdit ==
  /\ activeModal = Null
  /\ \E k \in 1..Len(filtered) :
       LET transaction == filtered[k]
       IN IF transaction.groupId # Null
            THEN /\ pendingAction' = [type |-> "edit", transaction |-> transaction]
                 /\ activeModal' = "batch-confirm"
                 /\ UNCHANGED <<batchEditScope, editingTransactionId>>
            ELSE /\ batchEditScope' = Null
                 /\ activeModal' = "transaction"
                 /\ editingTransactionId' = transaction.id
                 /\ UNCHANGED pendingAction
  /\ Ran([rev |-> "dashboard", name |-> "initiateEdit"], <<>>)
  /\ UNCHANGED <<cards, created, serverVars, transactions, viewVars, isSaving>>

\* the cancel button of a modal: closeModal()
cancelModal ==
  /\ activeModal # Null
  /\ closeModal
  /\ Ran([rev |-> "dashboard", name |-> "closeModal"], <<>>)
  /\ UNCHANGED <<cards, created, serverVars, transactions, viewVars, isSaving>>

\* executeBatchAction(scope), action.type === 'delete'
executeBatchActionDelete(scope) ==
  /\ activeModal = "batch-confirm"
  /\ pendingAction.type = "delete"
  /\ LET action  == pendingAction
         groupId == action.transaction.groupId
         groupTransactions == IF groupId # Null THEN fetchGroup(server, groupId) ELSE <<>>
         currentIndex == findIndex(groupTransactions, action.transaction.id)
         targetIds ==
           IF groupId = Null \/ scope = "single" THEN <<action.transaction.id>>
           ELSE ids(targetTransactions(groupTransactions, currentIndex, scope))
         handler(ok) ==
           [ rev |-> "dashboard", name |-> "executeBatchAction", type |-> "delete",
             scope |-> scope, transaction |-> action.transaction,
             fetched |-> groupId # Null, group |-> groupTransactions, ok |-> ok ]
     IN IF groupId # Null /\ currentIndex = 0 - 1
          THEN /\ isSaving' = FALSE
               /\ closeModal
               /\ Ran(handler(FALSE), <<>>)
               /\ UNCHANGED <<serverVars, transactions>>
          ELSE \E o \in Outcomes(Len(targetIds)) :
                 /\ server' = apiDelete(server, { targetIds[k] : k \in o.applied })
                 /\ isSaving' = FALSE
                 /\ Ran(Answered(handler(o.ok), o.ok), DeleteRequests(targetIds))
                 /\ IF o.ok
                      THEN /\ transactions' =
                                deleteTransactionLocally(transactions, idsOf(DeleteRequests(targetIds)))
                           /\ closeModal
                      ELSE UNCHANGED <<transactions, modalVars>>
                 /\ UNCHANGED nextId
  /\ UNCHANGED <<cards, created, viewVars>>

\* executeBatchAction(scope), action.type === 'edit': the scope is kept and the form opens
executeBatchActionEdit(scope) ==
  /\ activeModal = "batch-confirm"
  /\ pendingAction.type = "edit"
  /\ batchEditScope' = scope
  /\ activeModal' = "transaction"
  /\ editingTransactionId' = pendingAction.transaction.id
  /\ Ran([rev |-> "dashboard", name |-> "executeBatchAction", type |-> "edit", scope |-> scope], <<>>)
  /\ UNCHANGED <<cards, created, serverVars, transactions, viewVars, pendingAction, isSaving>>

\* openModal('transaction', transactionToEdit): the form filled from the transaction,
\* then submitted as it is, or with one of amounts in place of its amount and one of
\* categories in place of its category
EditForms(t, amounts, categories) ==
  { [ description   |-> t.description,
      amount        |-> amount,
      type          |-> t.type,
      date          |-> t.purchaseDate,
      ownerId       |-> t.ownerId,
      categoryId    |-> categoryId,
      useCard       |-> t.creditCardId # Null,
      creditCardId  |-> t.creditCardId,
      paymentMethod |-> t.paymentMethod,
      installments  |-> t.installmentTotal ] :
      amount \in {t.amount} \cup amounts, categoryId \in {t.categoryId} \cup categories }

\* onSubmitTransaction: updatePayload
updatePayload(val) ==
  LET isExpense == val.type = "EXPENSE"
      usingCard == isExpense /\ val.useCard
  IN [ description   |-> val.description,
       amount        |-> val.amount,
       type          |-> val.type,
       purchaseDate  |-> val.date,
       categoryId    |-> val.categoryId,
       creditCardId  |-> IF usingCard THEN val.creditCardId ELSE Null,
       ownerId       |-> val.ownerId,
       paymentMethod |-> IF usingCard THEN "CREDIT_CARD" ELSE val.paymentMethod ]

\* mutant: the target keeps its own category
batchPayload_TargetCategory(val, t) ==
  [ updatePayload(val) EXCEPT !.purchaseDate = t.purchaseDate,
                              !.description = t.description,
                              !.amount = val.amount,
                              !.categoryId = t.categoryId ]

\* onSubmitTransaction: batchPayload of one target
batchPayload(val, t) ==
  [ updatePayload(val) EXCEPT !.purchaseDate = t.purchaseDate,
                              !.description = t.description,
                              !.amount = val.amount ]

\* onSubmitTransaction, edit branch (editingTransactionId is set)
onSubmitTransactionEdit(amounts, categories) ==
  /\ activeModal = "transaction"
  /\ editingTransactionId # Null
  /\ LET editId == editingTransactionId
         scope  == batchEditScope
         found  == SelectSeq(transactions, LAMBDA t : t.id = editId)
     IN /\ found # <<>>
        /\ \E val \in EditForms(found[1], amounts, categories) :
             IF scope = Null \/ scope = "single"
               THEN \E o \in Outcomes(1) :
                      /\ editId \notin idsOf(server) => ~o.ok
                      /\ server' = apiPatchAll(server, PatchRequests(<<editId>>, updatePayload(val)), o.applied)
                      /\ Ran([ rev |-> "dashboard", name |-> "onSubmitTransaction", type |-> "edit",
                               scope |-> "single", transaction |-> found[1],
                               fetched |-> FALSE, group |-> <<>>, ok |-> o.ok, alert |-> ~o.ok ],
                             PatchRequests(<<editId>>, updatePayload(val)))
                      /\ IF o.ok
                           THEN /\ transactions' =
                                     updateTransactionLocally(transactions, editId, updatePayload(val))
                                /\ isSaving' = FALSE
                                /\ closeModal
                           ELSE /\ isSaving' = FALSE
                                /\ UNCHANGED <<transactions, modalVars>>
               ELSE LET original == found[1]
                        groupTransactions ==
                          IF original.groupId # Null THEN fetchGroup(server, original.groupId) ELSE <<>>
                        currentIndex == findIndex(groupTransactions, original.id)
                        targets == targetTransactions(groupTransactions, currentIndex, scope)
                        issued == [ k \in 1..Len(targets) |->
                                      [ method |-> "PATCH", id |-> targets[k].id,
                                        body |-> batchPayload(val, targets[k]) ] ]
                        handler(ok) ==
                          [ rev |-> "dashboard", name |-> "onSubmitTransaction", type |-> "edit",
                            scope |-> scope, transaction |-> original,
                            fetched |-> original.groupId # Null, group |-> groupTransactions,
                            ok |-> ok ]
                    IN IF issued = <<>>
                         THEN /\ isSaving' = TRUE
                              /\ Ran(handler(FALSE), <<>>)
                              /\ UNCHANGED <<server, transactions, modalVars>>
                         ELSE \E o \in Outcomes(Len(issued)) :
                                /\ server' = apiPatchAll(server, issued, o.applied)
                                /\ isSaving' = TRUE
                                /\ Ran(Answered(handler(o.ok), o.ok), issued)
                                /\ IF o.ok
                                     THEN /\ closeModal
                                          /\ transactions' =
                                               loadByMonth(server', selectedMonth, selectedYear)
                                     ELSE UNCHANGED <<transactions, modalVars>>
  /\ UNCHANGED <<cards, created, nextId, viewVars>>

\* togglePaid(transaction), on a row of the list; executeTogglePaid for a row without card
togglePaid ==
  /\ activeModal = Null
  /\ \E k \in 1..Len(filtered) :
       LET transaction == filtered[k]
           novoStatus  == ~transaction.paid
           issued      == PatchRequests(<<transaction.id>>, [paid |-> novoStatus])
       IN IF transaction.creditCardId # Null
            THEN /\ pendingAction' = [type |-> "pay", transaction |-> transaction]
                 /\ activeModal' = "batch-confirm"
                 /\ Ran([rev |-> "dashboard", name |-> "togglePaid"], <<>>)
                 /\ UNCHANGED <<server, transactions>>
            ELSE \E o \in Outcomes(1) :
                   /\ transaction.id \notin idsOf(server) => ~o.ok
                   /\ server' = apiPatchAll(server, issued, o.applied)
                   /\ transactions' =
                        IF o.ok
                          THEN updateTransactionLocally(transactions, transaction.id, [paid |-> novoStatus])
                          ELSE transactions
                   /\ Ran([rev |-> "dashboard", name |-> "executeTogglePaid", ok |-> o.ok,
                            alert |-> ~o.ok], issued)
                   /\ UNCHANGED <<activeModal, pendingAction>>
  /\ UNCHANGED <<cards, created, nextId, viewVars, batchEditScope, editingTransactionId, isSaving>>

\* the scopes the payment confirmation offers: this item, or the whole invoice
PayScopes == {"single", "all"}

\* the targets of the payment branch
payTargetIds_UnpaidOnly(action, scope, ledger) ==
  IF scope = "single" THEN <<action.transaction.id>>
  ELSE ids(SelectSeq(ledger, LAMBDA t : t.creditCardId = action.transaction.creditCardId /\ ~t.paid))

payTargetIds(action, scope, ledger) ==
  IF scope = "single" THEN <<action.transaction.id>>
  ELSE ids(SelectSeq(ledger, LAMBDA t : t.creditCardId = action.transaction.creditCardId))

\* executeBatchAction(scope), action.type === 'pay'
executeBatchActionPay(scope) ==
  /\ activeModal = "batch-confirm"
  /\ pendingAction.type = "pay"
  /\ LET action    == pendingAction
         isPaying  == ~action.transaction.paid
         targetIds == payTargetIds(action, scope, transactions)
         issued    == PatchRequests(targetIds, [paid |-> isPaying])
         handler(ok) ==
           [ rev |-> "dashboard", name |-> "executeBatchAction", type |-> "pay",
             scope |-> scope, transaction |-> action.transaction, ok |-> ok ]
     IN IF (scope # "single" /\ action.transaction.creditCardId = Null) \/ targetIds = <<>>
          THEN /\ Ran(handler(FALSE), <<>>)
               /\ UNCHANGED <<server, transactions, modalVars, isSaving>>
          ELSE \E o \in Outcomes(Len(targetIds)) :
                 /\ ~(idsOf(issued) \subseteq idsOf(server)) => ~o.ok
                 /\ server' = apiPatchAll(server, issued, o.applied)
                 /\ isSaving' = FALSE
                 /\ Ran(Answered(handler(o.ok), o.ok), issued)
                 /\ IF o.ok
                      THEN /\ transactions' =
                                updateTransactionsLocally(transactions, idsOf(issued), [paid |-> isPaying])
                           /\ closeModal
                      ELSE UNCHANGED <<transactions, modalVars>>
  /\ UNCHANGED <<cards, created, nextId, viewVars>>

\* fetchTransactionsSilently(month, year): what the GET of the month is answered with
fetchTransactionsSilently(db, month, year) ==
  LET javaMonth == month + 1 IN mapAll(apiFilter(db, javaMonth, year))

\* openModal('calendar'), as far as the dashboard goes: what the calendar component
\* shows is followed by openModalCalendar below
openCalendar ==
  /\ activeModal = Null
  /\ activeModal' = "calendar"
  /\ Ran([rev |-> "dashboard", name |-> "openModal"], <<>>)
  /\ UNCHANGED <<cards, created, serverVars, transactions, viewVars, pendingAction, batchEditScope,
                 editingTransactionId, isSaving>>

\* the days of a month the calendar is clicked on
CalendarDays == {10, 20}

\* onDashboardCalendarSelect(date), for a day within span months of the month of today
onDashboardCalendarSelect(span) ==
  /\ activeModal = "calendar"
  /\ \E ahead \in 0..span, day \in CalendarDays :
       LET date == NewDate(TodayYear, TodayMonth + ahead, day)
       IN /\ selectedMonth' = date.m
          /\ selectedYear' = date.y
          /\ selectedDay' = date.d
          /\ transactions' = loadByMonth(server, date.m, date.y)
  /\ searchQuery' = <<>>
  /\ closeModal
  /\ Ran([rev |-> "dashboard", name |-> "onDashboardCalendarSelect"], <<>>)
  /\ UNCHANGED <<cards, created, serverVars, selectedCardId, selectedOwnerId, statusFilter, isSaving>>

\* clearDayFilter()
clearDayFilter ==
  /\ activeModal = Null
  /\ selectedDay # 0
  /\ selectedDay' = 0
  /\ Ran([rev |-> "dashboard", name |-> "clearDayFilter"], <<>>)
  /\ UNCHANGED <<cards, created, serverVars, transactions, selectedMonth, selectedYear, selectedCardId,
                 selectedOwnerId, searchQuery, statusFilter, modalVars, isSaving>>

\* statusFilter.set(status), from the template
setStatusFilter ==
  /\ activeModal = Null
  /\ \E status \in {"all", "paid", "pending"} :
       /\ status # statusFilter
       /\ statusFilter' = status
  /\ Ran([rev |-> "dashboard", name |-> "statusFilter.set"], <<>>)
  /\ UNCHANGED <<cards, created, serverVars, transactions, selectedMonth, selectedYear, selectedDay,
                 selectedCardId, selectedOwnerId, searchQuery, modalVars, isSaving>>

\* the keys the list can be sorted by: the comparator knows 'description', 'category'
\* and 'amount', and takes any other key for the purchase date
SortKeys == {"date", "description", "category", "amount"}

\* mutant: the key that is already current starts over with its first direction
sortConfigOf_StartOver(current, key) ==
  [key |-> key, direction |-> IF key = "amount" THEN "desc" ELSE "asc"]

\* what toggleSort(key) sets sortConfig to
sortConfigOf(current, key) ==
  IF current.key = key
    THEN [key |-> key, direction |-> IF current.direction = "asc" THEN "desc" ELSE "asc"]
    ELSE LET direction == IF key = "amount" THEN "desc" ELSE "asc"
         IN [key |-> key, direction |-> direction]

\* toggleSort(key)
toggleSort(key) ==
  /\ activeModal = Null
  /\ sortConfig' = sortConfigOf(sortConfig, key)
  /\ Did([rev |-> "dashboard", name |-> "toggleSort", key |-> key, current |-> sortConfig], <<>>)
  /\ UNCHANGED <<loads, calendarVars, cards, created, serverVars, transactions, viewVars, modalVars, isSaving>>

\* the cards of the dashboard specifications
DashboardCards == [c \in CardIds |-> IF c = "c1" THEN 5 ELSE 31]

InitDash ==
  /\ cards = DashboardCards
  /\ call = NoCall
  /\ requests = <<>>
  /\ InitDashboard

(***************************************************************************)
(* AppComponent.executeBatchAction, src/src/app.component.ts: the scope is *)
(* resolved by installment number against the ledger.  The ledger is the   *)
(* one loadAll of the revision at src/src/services/finance.service.ts:507  *)
(* builds from records that carry the numbers addTransaction gave them.    *)
(***************************************************************************)
toLowerCase(type) == IF type = "EXPENSE" THEN "expense" ELSE "income"

\* loadAll(): the mapped data
loadAllMeta(data) ==
  [ k \in 1..Len(data) |->
      [ id                 |-> data[k].id,
        description        |-> data[k].description,
        amount             |-> data[k].amount,
        type               |-> toLowerCase(data[k].type),
        purchaseDate       |-> data[k].purchaseDate,
        groupId            |-> data[k].groupId,
        effectiveMonth     |-> data[k].effectiveMonth,
        effectiveYear      |-> data[k].effectiveYear,
        installmentCurrent |-> IF data[k].installmentCurrent # 0 THEN data[k].installmentCurrent ELSE 1,
        installmentTotal   |-> IF data[k].installmentTotal # 0 THEN data[k].installmentTotal ELSE 1 ] ]

\* Array.prototype.sort by installmentCurrent: stable
RECURSIVE insertByInstallment(_, _)
insertByInstallment(sorted, t) ==
  IF sorted = <<>> THEN <<t>>
  ELSE IF t.installmentCurrent < Head(sorted).installmentCurrent
    THEN <<t>> \o sorted
    ELSE <<Head(sorted)>> \o insertByInstallment(Tail(sorted), t)

RECURSIVE sortByInstallment(_)
sortByInstallment(ts) ==
  IF ts = <<>> THEN <<>>
  ELSE insertByInstallment(sortByInstallment(SubSeq(ts, 1, Len(ts) - 1)), ts[Len(ts)])

\* getGroupTransactions(groupId)
getGroupTransactions(ledger, groupId) ==
  sortByInstallment(SelectSeq(ledger, LAMBDA t : t.groupId = groupId))

\* mutant: 'past' stops before the target
pastLegacy_BeforeTarget(installmentCurrent, currentIdx) == installmentCurrent < currentIdx

\* scope === 'past': t.installmentCurrent <= currentIdx
pastLegacy(installmentCurrent, currentIdx) == installmentCurrent <= currentIdx

\* mutant: 'future' starts after the target
targetIdsLegacy_FutureAfterTarget(groupTransactions, transaction, scope) ==
  LET currentIdx == transaction.installmentCurrent
  IN IF scope = "single" THEN <<transaction.id>>
     ELSE IF scope = "all" THEN ids(groupTransactions)
     ELSE IF scope = "future"
       THEN ids(SelectSeq(groupTransactions, LAMBDA t : t.installmentCurrent > currentIdx))
     ELSE ids(SelectSeq(groupTransactions, LAMBDA t : pastLegacy(t.installmentCurrent, currentIdx)))

\* the targetIds of executeBatchAction
targetIdsLegacy(groupTransactions, transaction, scope) ==
  LET currentIdx == transaction.installmentCurrent
  IN IF scope = "single" THEN <<transaction.id>>
     ELSE IF scope = "all" THEN ids(groupTransactions)
     ELSE IF scope = "future"
       THEN ids(SelectSeq(groupTransactions, LAMBDA t : t.installmentCurrent >= currentIdx))
     ELSE ids(SelectSeq(groupTransactions, LAMBDA t : pastLegacy(t.installmentCurrent, currentIdx)))

\* the installment groups of the legacy ledgers, as addTransaction numbers them
LegacyGroups ==
  { addTransactionLegacyMeta(createArgsLegacy(val, "meta"), "g1", DashboardCards) :
      val \in { f \in [ description  : {Desc(b) : b \in Bases},
                        amount       : {30000 * Scale},
                        type         : {"expense"},
                        date         : { [y |-> TodayYear, m |-> TodayMonth + 1, d |-> 10] },
                        ownerId      : Owners,
                        categoryId   : Categories,
                        useCard      : {TRUE},
                        cardId       : {"c1"},
                        installments : {3, 5} ] : TRUE } }

Reverse(s) == [ k \in 1..Len(s) |-> s[Len(s) + 1 - k] ]

\* a group as the API returns it, in either order, after any of its members were deleted
LegacyLedgers ==
  { loadAllMeta(data) :
      data \in { IF reversed THEN Reverse(kept) ELSE kept :
                 <<kept, reversed>> \in
                   { SelectSeq([ k \in 1..Len(g) |-> [id |-> TxIds[k]] @@ g[k] ],
                               LAMBDA t : t.installmentCurrent \in numbers) :
                       <<g, numbers>> \in LegacyGroups \X (SUBSET (1..5) \ {{}}) } \X BOOLEAN } }

\* executeBatchAction(scope) of the AppComponent, on a row of such a ledger
executeBatchActionLegacy ==
  /\ call = NoCall
  /\ \E ledger \in LegacyLedgers \ {<<>>}, type \in {"delete", "edit"}, scope \in BatchScopes :
       \E k \in 1..Len(ledger) :
         LET transaction       == ledger[k]
             groupTransactions == getGroupTransactions(ledger, transaction.groupId)
             targetIds         == targetIdsLegacy(groupTransactions, transaction, scope)
         IN Ran([ rev |-> "legacy", name |-> "executeBatchAction", type |-> type,
                  scope |-> scope, transaction |-> transaction,
                  fetched |-> TRUE, group |-> groupTransactions, ok |-> TRUE ],
                IF type = "delete"
                  THEN DeleteRequests(targetIds)
                  ELSE PatchRequests(targetIds, [amount |-> transaction.amount]))
  /\ UNCHANGED <<cards, dashVars>>

(***************************************************************************)
(* SpecBatch: installment groups are created, the month is changed, and    *)
(* rows are deleted and edited with a scope.                               *)
(***************************************************************************)
BatchDates == { [y |-> TodayYear, m |-> TodayMonth + 1, d |-> 10] }

BatchForms == DashForms(DashboardCards, BatchDates, {"EXPENSE"}, {1, 3})

NextBatch ==
  \/ openModal
  \/ onSubmitTransactionCreate(BatchForms)
  \/ \E delta \in {0 - 1, 1} : changeMonth(delta, MonthSpan)
  \/ initiateDelete
  \/ initiateEdit
  \/ cancelModal
  \/ \E scope \in BatchScopes : executeBatchActionDelete(scope)
  \/ \E scope \in BatchScopes : executeBatchActionEdit(scope)
  \/ onSubmitTransactionEdit({}, {})
  \/ executeBatchActionLegacy

SpecBatch == InitDash /\ [][NextBatch]_vars

(***************************************************************************)
(* SpecPay: card purchases are created, the list is filtered, and rows are *)
(* marked paid or unpaid, one by one or by invoice.                        *)
(***************************************************************************)
PayDates == { [y |-> TodayYear, m |-> TodayMonth + 1, d |-> d] : d \in CalendarDays }

PayForms == DashForms(DashboardCards, PayDates, {"EXPENSE"}, {2})

NextPay ==
  \/ openModal
  \/ openCalendar
  \/ onSubmitTransactionCreate(PayForms)
  \/ \E delta \in {0 - 1, 1} : changeMonth(delta, PaySpan)
  \/ togglePaid
  \/ \E scope \in PayScopes : executeBatchActionPay(scope)
  \/ cancelModal
  \/ onDashboardCalendarSelect(PaySpan)
  \/ clearDayFilter
  \/ setStatusFilter

SpecPay == InitDash /\ [][NextPay]_vars

(***************************************************************************)
(* SpecGroup: a purchase in three installments is created; rows are       *)
(* edited with another category, deleted and paid, each with a scope.      *)
(***************************************************************************)
GroupForms ==
  { f \in DashForms(DashboardCards, BatchDates, {"EXPENSE"}, {3}) : f.creditCardId # "c2" }

\* the category the edit form is changed to
EditCategories == {"cat2"}

NextGroup ==
  \/ openModal
  \/ onSubmitTransactionCreate(GroupForms)
  \/ initiateDelete
  \/ initiateEdit
  \/ cancelModal
  \/ \E scope \in BatchScopes : executeBatchActionDelete(scope)
  \/ \E scope \in BatchScopes : executeBatchActionEdit(scope)
  \/ onSubmitTransactionEdit({}, EditCategories)
  \/ togglePaid
  \/ \E scope \in PayScopes : executeBatchActionPay(scope)

SpecGroup == InitDash /\ [][NextGroup]_vars

(***************************************************************************)
(* loadingInterceptor, src/src/app/app.component.ts:20, registered for     *)
(* every request by appConfig (src/src/app/app.config.ts:12-15): a request *)
(* that errors, or is not answered within the timeout, is sent again.      *)
(***************************************************************************)
\* retry({ count: 3, ... })
RetryCount == 3

\* mutant: the request is sent once
loadingInterceptor_NoRetry(answers) == [sent |-> 1, ok |-> answers[1]]

\* next(req).pipe(timeout(4500), retry({count: 3, delay: () => timer(2000)}), ...):
\* answers[j] tells whether the j-th send is answered in time without error; the
\* result is the number of sends and whether the last one was answered
loadingInterceptor(answers) ==
  IF \E j \in 1..(RetryCount + 1) : answers[j]
    THEN [ sent |-> CHOOSE j \in 1..(RetryCount + 1) :
                      answers[j] /\ \A i \in 1..(j - 1) : ~answers[i],
           ok   |-> TRUE ]
    ELSE [ sent |-> RetryCount + 1, ok |-> FALSE ]

\* what the sends of one request meet: errors or timeouts up to a send that is
\* answered, or on every send
AnswerRuns ==
  { [j \in 1..(RetryCount + 1) |-> j >= first] : first \in 1..(RetryCount + 2) }

\* the sends of a submission: body k, sent[k] times
RECURSIVE sends(_, _)
sends(bodies, sent) ==
  IF bodies = <<>> THEN <<>>
  ELSE LET k == Len(bodies)
       IN sends(SubSeq(bodies, 1, k - 1), sent) \o [ j \in 1..sent[k] |-> bodies[k] ]

\* onSubmitTransaction, create branch, with the sends of the interceptor: forkJoin
\* subscribes to every POST at once; when one of them errors after its last retry the
\* others are unsubscribed, wherever their own retries are (cut)
onSubmitTransactionCreateIntercepted(forms) ==
  /\ activeModal = "transaction"
  /\ editingTransactionId = Null
  /\ created < MaxCreates
  /\ created' = created + 1
  /\ \E val \in forms :
       LET a      == createArgs(val)
           bodies == addTransaction(a, Uuids[created + 1])
           n      == Len(bodies)
       IN /\ nextId + n - 1 <= MaxTx
          /\ \E answers \in [1..n -> AnswerRuns],
                cut \in [1..n -> 1..(RetryCount + 1)] :
               LET whole   == [k \in 1..n |-> loadingInterceptor(answers[k])]
                   ok      == \A k \in 1..n : whole[k].ok
                   sent    == [k \in 1..n |->
                                 IF ok \/ whole[k].sent <= cut[k] THEN whole[k].sent ELSE cut[k]]
                   applied == { k \in 1..n : whole[k].ok /\ sent[k] = whole[k].sent }
               IN /\ ok => \A k \in 1..n : cut[k] = 1
                  /\ ~ok => \E c \in 1..n : ~whole[c].ok /\ sent[c] = whole[c].sent
                  /\ server' = apiPost(server, nextId, bodies, applied)
                  /\ nextId' = nextId + Cardinality(applied)
                  /\ Ran(a @@ [ name |-> "onSubmitTransaction", ok |-> ok, alert |-> ~ok,
                                bodies |-> bodies, answers |-> answers ],
                         sends(bodies, sent))
                  /\ IF ok
                       THEN /\ transactions' = loadByMonth(server', selectedMonth, selectedYear)
                            /\ closeModal
                       ELSE UNCHANGED <<transactions, modalVars>>
  /\ isSaving' = FALSE
  /\ UNCHANGED <<cards, viewVars>>

(***************************************************************************)
(* SpecRetry: the create form is submitted with purchases in two           *)
(* installments, and every POST goes through the interceptor.              *)
(***************************************************************************)
RetryForms ==
  { f \in DashForms(DashboardCards, BatchDates, {"EXPENSE"}, {2}) : f.creditCardId = "c1" }

NextRetry ==
  \/ openModal
  \/ onSubmitTransactionCreateIntercepted(RetryForms)
  \/ cancelModal

SpecRetry == InitDash /\ [][NextRetry]_vars

(***************************************************************************)
(* SpecView: the API holds some records when the dashboard starts; the     *)
(* month is changed and the filters of the list are set and cleared.       *)
(***************************************************************************)
\* selectOwnerFilter(ownerId)
selectOwnerFilter ==
  /\ activeModal = Null
  /\ \E ownerId \in DOMAIN OwnerTable :
       selectedOwnerId' = IF selectedOwnerId = ownerId THEN Null ELSE ownerId
  /\ selectedCardId' = Null
  /\ Ran([rev |-> "dashboard", name |-> "selectOwnerFilter"], <<>>)
  /\ UNCHANGED <<cards, created, serverVars, transactions, selectedMonth, selectedYear, selectedDay,
                 searchQuery, statusFilter, modalVars, isSaving>>

\* selectCardFilter(cardId)
selectCardFilter ==
  /\ activeModal = Null
  /\ \E cardId \in DOMAIN cards :
       selectedCardId' = IF selectedCardId = cardId THEN Null ELSE cardId
  /\ Ran([rev |-> "dashboard", name |-> "selectCardFilter"], <<>>)
  /\ UNCHANGED <<cards, created, serverVars, transactions, selectedMonth, selectedYear, selectedDay,
                 selectedOwnerId, searchQuery, statusFilter, modalVars, isSaving>>

\* what is typed in the search box
Queries == { <<>>, <<" ", "T", "V", " ">>, <<"a", "n", "a">> }

\* searchQuery.set(text), from the template
setSearchQuery ==
  /\ activeModal = Null
  /\ \E query \in Queries :
       /\ query # searchQuery
       /\ searchQuery' = query
  /\ Ran([rev |-> "dashboard", name |-> "searchQuery.set"], <<>>)
  /\ UNCHANGED <<cards, created, serverVars, transactions, selectedMonth, selectedYear, selectedDay,
                 selectedCardId, selectedOwnerId, statusFilter, modalVars, isSaving>>

\* a record as GET returns it
ViewRecord(id, desc, cents, type, month, day, cat, owner, card, paid) ==
  [ id            |-> id,
    description   |-> Desc(desc),
    amount        |-> cents * Scale,
    type          |-> type,
    purchaseDate  |-> [y |-> TodayYear, m |-> month, d |-> day],
    categoryId    |-> cat,
    ownerId       |-> owner,
    creditCardId  |-> card,
    paymentMethod |-> IF card = Null THEN "PIX" ELSE "CREDIT_CARD",
    groupId       |-> Null,
    paid          |-> paid ]

\* the records the API may hold: expenses and an income of this month and the next,
\* with and without card, category and names; one is billed the month after its
\* purchase
ViewRecords ==
  << ViewRecord("t1", "TV Box", 30000, "EXPENSE", TodayMonth + 1, 10, "cat1", "o1", "c1", FALSE),
     ViewRecord("t2", "luz", 40000, "EXPENSE", TodayMonth + 1, 20, "cat9", "o2", Null, TRUE),
     ViewRecord("t3", "tv", 50000, "INCOME", TodayMonth + 1, 10, "cat1", "o1", "c1", TRUE)
       @@ [categoryName |-> Chars["Casa"], ownerName |-> Chars["Ana"]],
     ViewRecord("t4", "luz", 20000, "EXPENSE", TodayMonth + 2, 10, Null, "o1", "c1", FALSE),
     ViewRecord("t5", "tv", 5000, "EXPENSE", TodayMonth + 1, 20, "cat1", "o2", Null, FALSE),
     ViewRecord("t6", "TV Box", 40000, "EXPENSE", TodayMonth + 1, 10, "cat1", "o2", "c1", FALSE)
       @@ [billingDate |-> [y |-> TodayYear, m |-> TodayMonth + 2, d |-> 10]] >>

\* the records the API holds: any of them, in that order
ViewStores ==
  { SelectSeq(ViewRecords, LAMBDA t : t.id \in held) : held \in SUBSET idsOf(ViewRecords) }

\* the service loads the month of today when it is constructed
InitView ==
  /\ cards = DashboardCards
  /\ call = NoCall
  /\ requests = <<>>
  /\ server \in ViewStores
  /\ nextId = Len(server) + 1
  /\ created = 0
  /\ transactions = loadByMonth(server, TodayMonth, TodayYear)
  /\ selectedMonth = TodayMonth
  /\ selectedYear = TodayYear
  /\ selectedDay = 0
  /\ selectedCardId = Null
  /\ selectedOwnerId = Null
  /\ searchQuery = <<>>
  /\ statusFilter = "all"
  /\ activeModal = Null
  /\ pendingAction = NoAction
  /\ batchEditScope = Null
  /\ editingTransactionId = Null
  /\ isSaving = FALSE
  /\ InitRest

NextView ==
  \/ \E delta \in {0 - 1, 1} : changeMonth(delta, PaySpan)
  \/ selectOwnerFilter
  \/ selectCardFilter
  \/ setStatusFilter
  \/ setSearchQuery
  \/ openCalendar
  \/ onDashboardCalendarSelect(PaySpan)
  \/ clearDayFilter
  \/ cancelModal

SpecView == InitView /\ [][NextView]_vars

(***************************************************************************)
(* SpecLoad: the GETs of loadByMonth are answered some time after they are *)
(* issued, each through loadingInterceptor: a send ends with an answer,    *)
(* with an error or with the timeout; after an error or a timeout the      *)
(* request waits for timer(2000) and is sent again, RetryCount times at    *)
(* most.  Nothing cancels a request when the next one is issued.           *)
(***************************************************************************)
\* the GETs of loadByMonth in one behaviour
MaxLoads == 2

\* http.get(API_URL/filter, {month, year}), subscribed: the first send
get(month, year) == [month |-> month, year |-> year, attempt |-> 1, phase |-> "sent"]

Outstanding(load) == load.phase \in {"sent", "waiting"}

\* mutant: one more resubscription than count
mayRetry_OneMore(attempt) == attempt - 1 <= RetryCount

\* retry({count: 3}): the source is resubscribed while fewer than count retries were made
mayRetry(attempt) == attempt - 1 < RetryCount

\* changeMonth(delta), up to the request of loadByMonth
changeMonthPending(delta, span) ==
  /\ activeModal = Null
  /\ Len(loads) < MaxLoads
  /\ LET m0 == selectedMonth + delta
         m  == IF m0 > 11 THEN 0 ELSE IF m0 < 0 THEN 11 ELSE m0
         y  == IF m0 > 11 THEN selectedYear + 1 ELSE IF m0 < 0 THEN selectedYear - 1 ELSE selectedYear
         ahead == (y * 12 + m) - (TodayYear * 12 + TodayMonth)
     IN /\ ahead \in 0..span
        /\ selectedMonth' = m
        /\ selectedYear' = y
        /\ selectedDay' = 0
        /\ loads' = Append(loads, get(m, y))
  /\ UNCHANGED <<sortConfig, calendarVars>>
  /\ Did([rev |-> "dashboard", name |-> "changeMonth"], <<>>)
  /\ UNCHANGED <<cards, created, serverVars, transactions, selectedCardId, selectedOwnerId,
                 searchQuery, statusFilter, modalVars, isSaving>>

\* onSubmitTransaction, create branch, up to the request of loadByMonth: the POSTs
\* are answered, the month on display is asked for and the form is closed
onSubmitTransactionCreatePending(forms) ==
  /\ activeModal = "transaction"
  /\ editingTransactionId = Null
  /\ created < MaxCreates
  /\ Len(loads) < MaxLoads
  /\ created' = created + 1
  /\ \E val \in forms :
       LET a      == createArgs(val)
           bodies == addTransaction(a, Uuids[created + 1])
       IN /\ nextId + Len(bodies) - 1 <= MaxTx
          /\ server' = apiPost(server, nextId, bodies, 1..Len(bodies))
          /\ nextId' = nextId + Len(bodies)
          /\ Did(a, bodies)
  /\ loads' = Append(loads, get(selectedMonth, selectedYear))
  /\ UNCHANGED <<sortConfig, calendarVars>>
  /\ isSaving' = FALSE
  /\ closeModal
  /\ UNCHANGED <<cards, transactions, viewVars>>

\* the i-th GET is answered in time: next of loadByMonth sets the ledger
loadAnswered(i) ==
  /\ i \in 1..Len(loads)
  /\ loads[i].phase = "sent"
  /\ loads' = [loads EXCEPT ![i].phase = "done"]
  /\ transactions' = loadByMonth(server, loads[i].month, loads[i].year)
  /\ UNCHANGED <<sortConfig, calendarVars>>
  /\ Did([rev |-> "dashboard", name |-> "loadByMonth", load |-> i,
          attempt |-> loads[i].attempt, alert |-> FALSE], <<>>)
  /\ UNCHANGED <<cards, created, serverVars, viewVars, modalVars, isSaving>>

\* a send of the i-th GET errors or meets timeout(4500): retry waits for its timer,
\* or, its count used up, the error reaches the error callback of loadByMonth
loadErrored(i) ==
  /\ i \in 1..Len(loads)
  /\ loads[i].phase = "sent"
  /\ IF mayRetry(loads[i].attempt)
       THEN /\ loads' = [loads EXCEPT ![i].phase = "waiting"]
            /\ UNCHANGED <<call, requests>>
       ELSE /\ loads' = [loads EXCEPT ![i].phase = "failed"]
            /\ Did([rev |-> "dashboard", name |-> "loadByMonth", load |-> i,
                    attempt |-> loads[i].attempt, alert |-> TRUE], <<>>)
  /\ UNCHANGED <<sortConfig, calendarVars>>
  /\ UNCHANGED <<cards, created, serverVars, transactions, viewVars, modalVars, isSaving>>

\* timer(2000) of the i-th GET fires: the request is sent again
loadRetried(i) ==
  /\ i \in 1..Len(loads)
  /\ loads[i].phase = "waiting"
  /\ loads' = [loads EXCEPT ![i].phase = "sent", ![i].attempt = @ + 1]
  /\ UNCHANGED <<sortConfig, calendarVars>>
  /\ UNCHANGED <<cards, call, requests, created, serverVars, transactions, viewVars, modalVars,
                 isSaving>>

\* the API holds a purchase of the month of today and one of the next month; the
\* service asked for the month of today when it was constructed, and was answered
LoadStore == SelectSeq(ViewRecords, LAMBDA t : t.id \in {"t1", "t4"})

InitLoad ==
  /\ cards = DashboardCards
  /\ call = NoCall
  /\ requests = <<>>
  /\ server = LoadStore
  /\ nextId = Len(LoadStore) + 1
  /\ created = 0
  /\ transactions = loadByMonth(LoadStore, TodayMonth, TodayYear)
  /\ selectedMonth = TodayMonth
  /\ selectedYear = TodayYear
  /\ selectedDay = 0
  /\ selectedCardId = Null
  /\ selectedOwnerId = Null
  /\ searchQuery = <<>>
  /\ statusFilter = "all"
  /\ activeModal = Null
  /\ pendingAction = NoAction
  /\ batchEditScope = Null
  /\ editingTransactionId = Null
  /\ isSaving = FALSE
  /\ sortConfig = [key |-> "date", direction |-> "desc"]
  /\ loads = <<>>
  /\ viewDate = [y |-> TodayYear, m |-> TodayMonth, d |-> TodayDay]
  /\ calendarTransactions = <<>>

LoadForms ==
  { f \in DashForms(DashboardCards, BatchDates, {"EXPENSE"}, {1}) : ~f.useCard }

NextLoad ==
  \/ \E delta \in {0 - 1, 1} : changeMonthPending(delta, PaySpan)
  \/ openModal
  \/ onSubmitTransactionCreatePending(LoadForms)
  \/ \E i \in 1..MaxLoads : loadAnswered(i)
  \/ \E i \in 1..MaxLoads : loadErrored(i)
  \/ \E i \in 1..MaxLoads : loadRetried(i)

SpecLoad == InitLoad /\ [][NextLoad]_vars

\* every send ends, by timeout(4500) at the latest, and every timer(2000) fires
FairLoad ==
  \A i \in 1..MaxLoads :
    WF_vars(loadAnswered(i) \/ loadErrored(i)) /\ WF_vars(loadRetried(i))

SpecLoadFair == SpecLoad /\ FairLoad

(***************************************************************************)
(* SpecCalendar: the calendar modal is opened on the month on display, is  *)
(* moved from month to month and closed, by the cancel button or by the    *)
(* choice of a day.  CalendarViewComponent,                                *)
(* src/src/app/components/calendar-view/calendar-view.component.ts.        *)
(***************************************************************************)
\* how far the calendar is within the months of the model
aheadOfToday(date) == (date.y * 12 + date.m) - (TodayYear * 12 + TodayMonth)

\* mutant: the calendar loads its month through the ledger of the dashboard
loadCalendarData_IntoLedger(date, answered) ==
  /\ calendarTransactions' =
       IF answered THEN fetchTransactionsSilently(server, date.m, date.y) ELSE calendarTransactions
  /\ transactions' = IF answered THEN loadByMonth(server, date.m, date.y) ELSE transactions

\* loadCalendarData(), date being viewDate(): the answer is kept in
\* calendarTransactions; when the GET fails nothing is set
loadCalendarData(date, answered) ==
  /\ calendarTransactions' =
       IF answered THEN fetchTransactionsSilently(server, date.m, date.y) ELSE calendarTransactions
  /\ transactions' = transactions

\* openModal('calendar'), with the calendar component: after the timer viewDate is
\* the first day of the month on display, and that month is loaded
openModalCalendar ==
  /\ activeModal = Null
  /\ activeModal' = "calendar"
  /\ \E answered \in BOOLEAN :
       LET syncDate == NewDate(selectedYear, selectedMonth, 1)
       IN /\ viewDate' = syncDate
          /\ loadCalendarData(syncDate, answered)
          /\ Did([rev |-> "dashboard", name |-> "openModal", type |-> "calendar",
                  answered |-> answered], <<>>)
  /\ UNCHANGED <<cards, created, serverVars, viewVars, pendingAction, batchEditScope,
                 editingTransactionId, isSaving, sortConfig, loads>>

\* prevMonth(): d.setMonth(d.getMonth() - 1), then loadCalendarData()
prevMonth(span) ==
  /\ activeModal = "calendar"
  /\ \E answered \in BOOLEAN :
       LET d == NewDate(viewDate.y, viewDate.m - 1, viewDate.d)
       IN /\ aheadOfToday(d) \in (0 - 1)..span
          /\ viewDate' = d
          /\ loadCalendarData(d, answered)
          /\ Did([rev |-> "calendar", name |-> "prevMonth", from |-> viewDate,
                  answered |-> answered], <<>>)
  /\ UNCHANGED <<cards, created, serverVars, viewVars, modalVars, isSaving, sortConfig, loads>>

\* nextMonth(): d.setMonth(d.getMonth() + 1), then loadCalendarData()
nextMonth(span) ==
  /\ activeModal = "calendar"
  /\ \E answered \in BOOLEAN :
       LET d == NewDate(viewDate.y, viewDate.m + 1, viewDate.d)
       IN /\ aheadOfToday(d) \in (0 - 1)..span
          /\ viewDate' = d
          /\ loadCalendarData(d, answered)
          /\ Did([rev |-> "calendar", name |-> "nextMonth", from |-> viewDate,
                  answered |-> answered], <<>>)
  /\ UNCHANGED <<cards, created, serverVars, viewVars, modalVars, isSaving, sortConfig, loads>>

\* selectDay(cell) on a day of the month the calendar shows: daySelected emits the
\* date, and onDashboardCalendarSelect(date) runs
selectDay ==
  /\ activeModal = "calendar"
  /\ \E day \in CalendarDays :
       LET date == NewDate(viewDate.y, viewDate.m, day)
       IN /\ selectedMonth' = date.m
          /\ selectedYear' = date.y
          /\ selectedDay' = date.d
          /\ transactions' = loadByMonth(server, date.m, date.y)
          /\ Did([rev |-> "dashboard", name |-> "onDashboardCalendarSelect", date |-> date], <<>>)
  /\ searchQuery' = <<>>
  /\ closeModal
  /\ UNCHANGED <<cards, created, serverVars, selectedCardId, selectedOwnerId, statusFilter,
                 isSaving, restVars>>

NextCalendar ==
  \/ openModalCalendar
  \/ prevMonth(PaySpan)
  \/ nextMonth(PaySpan)
  \/ selectDay
  \/ cancelModal
  \/ clearDayFilter

SpecCalendar == InitView /\ [][NextCalendar]_vars

(***************************************************************************)
(* SpecSort: the list of the dashboard is sorted by one column after       *)
(* another while it is filtered.                                           *)
(***************************************************************************)
NextSort ==
  \/ \E key \in SortKeys : toggleSort(key)
  \/ setStatusFilter
  \/ selectCardFilter

SpecSort == InitView /\ [][NextSort]_vars

(***************************************************************************)
(* SpecFail: purchases in four installments are created, edited, deleted   *)
(* and paid, and any request of any of these may fail, those of a create   *)
(* included.                                                               *)
(***************************************************************************)
\* executeBatchAction(scope), action.type === 'delete', when the GET of fetchGroup
\* fails: subscribe has no error callback, nothing runs after isSaving.set(true)
executeBatchActionDeleteFetchError(scope) ==
  /\ activeModal = "batch-confirm"
  /\ pendingAction.type = "delete"
  /\ pendingAction.transaction.groupId # Null
  /\ isSaving' = TRUE
  /\ Ran([ rev |-> "dashboard", name |-> "executeBatchAction", type |-> "delete",
           scope |-> scope, transaction |-> pendingAction.transaction,
           fetched |-> FALSE, group |-> <<>>, ok |-> FALSE, fetchFailed |-> TRUE ], <<>>)
  /\ UNCHANGED <<cards, created, serverVars, transactions, viewVars, modalVars>>

\* onSubmitTransaction, edit branch with a scope other than 'single', when the GET of
\* fetchGroup fails: subscribe has no error callback
onSubmitTransactionEditFetchError ==
  /\ activeModal = "transaction"
  /\ editingTransactionId # Null
  /\ batchEditScope \notin {Null, "single"}
  /\ LET found == SelectSeq(transactions, LAMBDA t : t.id = editingTransactionId)
     IN /\ found # <<>>
        /\ found[1].groupId # Null
        /\ Ran([ rev |-> "dashboard", name |-> "onSubmitTransaction", type |-> "edit",
                 scope |-> batchEditScope, transaction |-> found[1],
                 fetched |-> FALSE, group |-> <<>>, ok |-> FALSE, fetchFailed |-> TRUE ], <<>>)
  /\ isSaving' = TRUE
  /\ UNCHANGED <<cards, created, serverVars, transactions, viewVars, modalVars>>

FailForms ==
  { f \in DashForms(DashboardCards, BatchDates, {"EXPENSE"}, {4}) : f.creditCardId # "c2" }

\* the scopes chosen where requests fail: this item, or the whole group or invoice
FailScopes == {"single", "all"}

NextFail ==
  \/ openModal
  \/ onSubmitTransactionCreate(FailForms)
  \/ onSubmitTransactionCreateError(FailForms)
  \/ initiateDelete
  \/ initiateEdit
  \/ cancelModal
  \/ \E scope \in FailScopes : executeBatchActionDelete(scope)
  \/ \E scope \in FailScopes : executeBatchActionEdit(scope)
  \/ onSubmitTransactionEdit({}, {})
  \/ togglePaid
  \/ \E scope \in FailScopes : executeBatchActionPay(scope)
  \/ \E scope \in FailScopes : executeBatchActionDeleteFetchError(scope)
  \/ onSubmitTransactionEditFetchError

SpecFail == InitDash /\ [][NextFail]_vars

(***************************************************************************)
(* What the claims say, stated without the operators of the model.         *)
(***************************************************************************)
\* the installment count the last call was given, a non-positive one read as 1
RequestedCount == IF call.installments > 0 THEN call.installments ELSE 1

\* a card is attached to the purchase of the last call
CardAttached == call.cardId # Null

\* the effective installment count of the last call: the count it was given when
\* that is positive and the call is one that splits (an expense; in the two
\* AppComponent-era revisions an expense with a card id), else 1
Splits ==
  \/ call.rev = "app" /\ call.type = "EXPENSE"
  \/ call.rev \in {"legacy", "meta"} /\ call.type = "expense" /\ CardAttached
EffectiveCount == IF Splits THEN RequestedCount ELSE 1

\* month number y * 12 + m of a written date (m is 1-based there)
MonthIndex(ds) == ds.y * 12 + (ds.m - 1)

\* the billing rule: the month after the purchase month when a card is attached
\* and the purchase day is on or after its closing day, else the purchase month
BillingMonthIndex ==
  IF CardAttached /\ call.dateStr.d >= cards[call.cardId]
    THEN MonthIndex(call.dateStr) + 1
    ELSE MonthIndex(call.dateStr)

\* the month in which the first installment of the last call is dated
StartMonthIndex ==
  IF call.rev = "app" THEN MonthIndex(call.dateStr) ELSE BillingMonthIndex

\* where a request says the installment falls
DatedMonthIndex(r) ==
  IF call.rev = "meta" THEN r.effectiveYear * 12 + r.effectiveMonth
  ELSE MonthIndex(r.purchaseDate)

RECURSIVE SumAmounts(_)
SumAmounts(rs) == IF rs = <<>> THEN 0 ELSE Head(rs).amount + SumAmounts(Tail(rs))

Abs(x) == IF x < 0 THEN 0 - x ELSE x

\* the installment number i and the total n that request r states
Numbered(r, i, n) ==
  IF call.rev = "meta"
    THEN r.installmentCurrent = i /\ r.installmentTotal = n
    ELSE r.description = (IF n > 1 THEN [call.description EXCEPT !.sfx = Append(@, <<i, n>>)]
                                   ELSE call.description)

\* C1: the first installment of a purchase is billed in the month after the
\* purchase month (January of the next year after December) when a card is
\* attached and the purchase day is on or after the card's closing day, and in
\* the purchase month otherwise; nothing else of the call matters.
C1_BillingPeriod ==
  call.rev \in {"legacy", "meta"} =>
    LET first == DatedMonthIndex(requests[1])
        d     == call.dateStr.d
        pm    == call.dateStr.m
        py    == call.dateStr.y
    IN IF CardAttached /\ d >= cards[call.cardId]
         THEN first = (IF pm = 12 THEN (py + 1) * 12 ELSE py * 12 + pm)
         ELSE first = py * 12 + (pm - 1)

C1_Witness ==
  /\ call.rev = "legacy"
  /\ CardAttached
  /\ call.dateStr.m = 12
  /\ call.dateStr.d >= cards[call.cardId]
  /\ requests[1].purchaseDate.m = 1
  /\ requests[1].purchaseDate.y = call.dateStr.y + 1

\* C2 as claimed: a call with a positive installment count N builds exactly N
\* requests, numbered 1..N of N in order; a non-positive count builds exactly one.
C2_AnyCallSplits ==
  call.rev # "none" =>
    /\ Len(requests) = RequestedCount
    /\ \A i \in 1..Len(requests) : Numbered(requests[i], i, RequestedCount)

\* C2: a call for an expense (in the two AppComponent-era revisions: an expense
\* with a card id) with a positive installment count N builds exactly N requests,
\* numbered 1..N of N in order; every other call, one with a non-positive count
\* included, builds exactly one request.
C2_CountAndNumbers ==
  call.rev # "none" =>
    /\ Len(requests) = EffectiveCount
    /\ \A i \in 1..Len(requests) : Numbered(requests[i], i, EffectiveCount)

C2_Witness ==
  /\ call.rev = "app"
  /\ call.installments = 3
  /\ Len(requests) = 3
  /\ requests[3].description.sfx = << <<3, 3>> >>

C2_WitnessNonPositive ==
  /\ call.rev = "app"
  /\ call.type = "EXPENSE"
  /\ call.installments < 1
  /\ Len(requests) = 1

\* C3: the day of every installment date is min(anchor day, number of days of
\* the installment's own target month), and the date stays in that month.
C3_ClampedDay ==
  call.rev \in {"app", "legacy"} =>
    \A i \in 1..Len(requests) :
      LET target == StartMonthIndex + (i - 1)
          ty     == target \div 12
          tm     == target % 12
          dim    == daysInMonth(ty, tm)
          date   == requests[i].purchaseDate
      IN /\ date.d = (IF call.dateStr.d < dim THEN call.dateStr.d ELSE dim)
         /\ date.d <= dim
         /\ date.y = ty /\ date.m = tm + 1

C3_Witness ==
  /\ call.rev = "app"
  /\ call.dateStr.m = 1 /\ call.dateStr.d = 31
  /\ Len(requests) >= 3
  /\ requests[2].purchaseDate.m = 2
  /\ requests[2].purchaseDate.d = (IF IsLeap(call.dateStr.y) THEN 29 ELSE 28)
  /\ requests[3].purchaseDate.m = 3
  /\ requests[3].purchaseDate.d = 31

\* C4: the installments of a call fall in consecutive calendar months, one per
\* month, starting with the start month, also across a year boundary.
C4_ConsecutiveMonths ==
  call.rev \in {"app", "legacy", "meta"} =>
    /\ DatedMonthIndex(requests[1]) = StartMonthIndex
    /\ \A i \in 1..(Len(requests) - 1) :
         DatedMonthIndex(requests[i + 1]) = DatedMonthIndex(requests[i]) + 1

\* 28 January, three installments, closing day 5: February, March, April
C4_Witness ==
  /\ call.rev = "legacy"
  /\ call.dateStr.m = 1 /\ call.dateStr.d = 28
  /\ CardAttached /\ cards[call.cardId] = 5
  /\ Len(requests) = 3
  /\ requests[1].purchaseDate.m = 2
  /\ requests[2].purchaseDate.m = 3
  /\ requests[3].purchaseDate.m = 4

C4_WitnessYearEnd ==
  /\ call.rev = "app"
  /\ call.dateStr.m = 12 /\ call.dateStr.d = 31
  /\ Len(requests) = 3
  /\ requests[2].purchaseDate = [y |-> call.dateStr.y + 1, m |-> 1, d |-> 31]
  /\ requests[3].purchaseDate.m = 2

\* C5: the amounts of the requests of one call sum to the total amount of the
\* call within one cent.
C5_SumWithinOneCent ==
  call.rev # "none" => Abs(SumAmounts(requests) - call.amount) <= Scale

C5_Witness ==
  /\ call.rev = "app"
  /\ Len(requests) = 3
  /\ SumAmounts(requests) # call.amount

\* C6: the requests of one call carry one and the same groupId, and they carry
\* a groupId exactly when the effective installment count is greater than 1.
C6_GroupId ==
  call.rev # "none" =>
    \A i \in 1..Len(requests) :
      /\ requests[i].groupId = requests[1].groupId
      /\ (requests[i].groupId # Null) <=> (EffectiveCount > 1)

C6_Witness ==
  /\ call.rev = "app"
  /\ Len(requests) = 3
  /\ requests[1].groupId # Null
  /\ requests[3].groupId = requests[1].groupId

C6_WitnessIncome ==
  /\ call.rev = "app"
  /\ call.type = "INCOME"
  /\ requests[1].groupId = Null

(***************************************************************************)
(* The scopes of a batch delete and of a batch edit.  A handler that has   *)
(* fetched the group leaves it in call.group, the row it was started on in *)
(* call.transaction, and what it sent in requests.                         *)
(***************************************************************************)
\* the last handler resolved a scope against a group it fetched
GroupFetched ==
  call.rev \in {"dashboard", "legacy"} /\ "fetched" \in DOMAIN call /\ call.fetched

\* the positions of the target in the fetched group (none when it is not there)
TargetPositions == { k \in 1..Len(call.group) : call.group[k].id = call.transaction.id }

\* the identifiers the handler sent a DELETE or a PATCH for
Affected == { requests[k].id : k \in 1..Len(requests) }

\* one request for each identifier, all of the method of the flow
OneRequestEach ==
  /\ Len(requests) = Cardinality(Affected)
  /\ \A k \in 1..Len(requests) :
       requests[k].method = (IF call.type = "delete" THEN "DELETE" ELSE "PATCH")

\* C7: with scope 'future' and the target found at position p of the ordered group,
\* the affected identifiers are exactly those at positions p through the end.
C7_FutureScope ==
  (GroupFetched /\ call.scope = "future") =>
    \A p \in TargetPositions :
      /\ Affected = { call.group[k].id : k \in p..Len(call.group) }
      /\ OneRequestEach

\* C7: a group of 3 with the 2nd installment as the target of a delete: 2 and 3
C7_Witness ==
  /\ GroupFetched /\ call.scope = "future" /\ call.type = "delete"
  /\ Len(call.group) = 3
  /\ TargetPositions = {2}
  /\ call.transaction.description.sfx = << <<2, 3>> >>
  /\ Affected = { call.group[2].id, call.group[3].id }

\* C7: the same for an edit
C7_WitnessEdit ==
  /\ GroupFetched /\ call.scope = "future" /\ call.type = "edit"
  /\ Len(call.group) = 3
  /\ TargetPositions = {2}
  /\ Affected = { call.group[2].id, call.group[3].id }

\* C8: with scope 'past' and the target found at position p of the ordered group,
\* the affected identifiers are exactly those at positions 1 through p.
C8_PastScope ==
  (GroupFetched /\ call.scope = "past") =>
    \A p \in TargetPositions :
      /\ Affected = { call.group[k].id : k \in 1..p }
      /\ OneRequestEach

\* C8: a group of 3 with the 2nd installment as the target of a delete: 1 and 2
C8_Witness ==
  /\ GroupFetched /\ call.scope = "past" /\ call.type = "delete"
  /\ Len(call.group) = 3
  /\ TargetPositions = {2}
  /\ call.transaction.description.sfx = << <<2, 3>> >>
  /\ Affected = { call.group[1].id, call.group[2].id }

\* C8: the same in the AppComponent, on a ledger the 2nd installment is gone from
C8_WitnessLegacy ==
  /\ GroupFetched /\ call.scope = "past" /\ call.rev = "legacy"
  /\ Len(call.group) = 4
  /\ TargetPositions = {2}
  /\ call.transaction.installmentCurrent = 3
  /\ Affected = { call.group[1].id, call.group[2].id }

\* C8: the same for an edit
C8_WitnessEdit ==
  /\ GroupFetched /\ call.scope = "past" /\ call.type = "edit"
  /\ Len(call.group) = 3
  /\ TargetPositions = {2}
  /\ Affected = { call.group[1].id, call.group[2].id }

\* C9: when the target is not in the fetched group, no DELETE and no PATCH is sent,
\* whatever the scope, in the delete flow and in the edit flow.
C9_NotFoundNoRequest ==
  (GroupFetched /\ TargetPositions = {}) => requests = <<>>

\* C9, delete flow alone: a target that is not in the fetched group sends nothing
C9_DeleteNotFound ==
  (GroupFetched /\ call.type = "delete" /\ TargetPositions = {}) => requests = <<>>

\* C9: a delete whose target is gone from the group it fetched
C9_WitnessDelete ==
  GroupFetched /\ call.type = "delete" /\ TargetPositions = {} /\ call.group # <<>>

(***************************************************************************)
(* Paying a whole invoice: executeBatchAction with a 'pay' action and the  *)
(* scope 'all', every request answered.  A step of it is told by call'.    *)
(***************************************************************************)
PayAllStep ==
  /\ call'.rev = "dashboard"
  /\ call'.name = "executeBatchAction"
  /\ call'.type = "pay"
  /\ call'.scope = "all"
  /\ call'.ok

\* the paid flag a record of the API, or an entry of the ledger, has under an id
PaidOf(ts, id) == { ts[k].paid : k \in { j \in 1..Len(ts) : ts[j].id = id } }

\* the transactions whose paid flag the step changes, at the API and in the ledger
ChangedAtServer == { id \in idsOf(server) : PaidOf(server, id) # PaidOf(server', id) }
ChangedInLedger == { id \in idsOf(transactions) : PaidOf(transactions, id) # PaidOf(transactions', id) }

\* the rows the filters show that are unpaid and on the card of the target
VisibleUnpaidOfCard ==
  { filtered[k].id : k \in { j \in 1..Len(filtered) :
      /\ ~filtered[j].paid
      /\ filtered[j].creditCardId = pendingAction.transaction.creditCardId } }

\* the entries of the ledger on the card of the target, shown or not, paid or not
LoadedOfCard ==
  { transactions[k].id : k \in { j \in 1..Len(transactions) :
      transactions[j].creditCardId = pendingAction.transaction.creditCardId } }

\* those of them whose paid flag is the one the target has
LoadedOfCardToChange ==
  { transactions[k].id : k \in { j \in 1..Len(transactions) :
      /\ transactions[j].creditCardId = pendingAction.transaction.creditCardId
      /\ transactions[j].paid = pendingAction.transaction.paid } }

\* C10 as stated: paying a whole invoice, started on an unpaid row, changes the paid
\* flag of exactly the rows that are visible under the filters, unpaid, and on the
\* card of the target.
C10_VisibleUnpaid ==
  [][ (PayAllStep /\ ~pendingAction.transaction.paid) =>
        /\ ChangedInLedger = VisibleUnpaidOfCard
        /\ ChangedAtServer \subseteq VisibleUnpaidOfCard ]_vars

\* C10: paying a whole invoice sends the opposite of the target's paid flag for every
\* entry of the ledger on the target's card, whether or not the filters show it and
\* whatever its own flag, and for nothing else; the entries whose flag changes are
\* those of them that had the flag of the target, whatever their installment group.
C10_LoadedOfCard ==
  [][ PayAllStep =>
        /\ { requests'[k].id : k \in 1..Len(requests') } = LoadedOfCard
        /\ Len(requests') = Cardinality(LoadedOfCard)
        /\ \A k \in 1..Len(requests') :
             /\ requests'[k].method = "PATCH"
             /\ requests'[k].body = [paid |-> ~pendingAction.transaction.paid]
        /\ ChangedInLedger = LoadedOfCardToChange
        /\ ChangedAtServer \subseteq LoadedOfCard
        /\ \A id \in LoadedOfCard : PaidOf(server', id) = {~pendingAction.transaction.paid} ]_vars

\* C10: a whole invoice was paid while the day filter hid one of its rows, which is
\* not of the installment group of the target, and that row is paid too
C10_Witness ==
  /\ call.rev = "dashboard" /\ call.name = "executeBatchAction"
  /\ call.type = "pay" /\ call.scope = "all" /\ call.ok
  /\ ~call.transaction.paid
  /\ selectedDay # 0
  /\ \E k \in 1..Len(requests) : \E j \in 1..Len(transactions) :
       /\ transactions[j].id = requests[k].id
       /\ transactions[j].purchaseDate.d # selectedDay
       /\ transactions[j].groupId # call.transaction.groupId
       /\ transactions[j].creditCardId = call.transaction.creditCardId
       /\ transactions[j].paid

(***************************************************************************)
(* The parallel joins: the POSTs of a create, the DELETEs of a batch       *)
(* delete, the PATCHes of a batch edit.                                    *)
(***************************************************************************)
\* the last handler was the create branch of onSubmitTransaction
IsCreate == call.rev = "app"

\* the last handler deleted with a scope
IsBatchDelete ==
  call.rev = "dashboard" /\ call.name = "executeBatchAction" /\ call.type = "delete"

\* the last handler edited with a scope other than 'single'
IsBatchEdit ==
  /\ call.rev = "dashboard" /\ call.name = "onSubmitTransaction"
  /\ call.type = "edit" /\ call.scope # "single"

\* the last handler joined requests, and sent some
IsJoin == (IsCreate \/ IsBatchDelete \/ IsBatchEdit) /\ requests # <<>>

\* the join ended in next: the handler went on as after a success
JoinSucceeded == IF IsCreate THEN "ok" \notin DOMAIN call ELSE call.ok

\* the targets of the operation: the installments of the create, the members of the
\* group the scope selects
TargetCount ==
  IF IsCreate THEN totalInstallments(call.type, call.installments)
  ELSE IF call.fetched /\ call.scope = "all" THEN Len(call.group)
  ELSE 1

\* the store holds what request k asked for
EffectInStore(k) ==
  IF IsCreate
    THEN \E j \in 1..Len(server) :
           /\ server[j].description = requests[k].description
           /\ server[j].groupId = requests[k].groupId
           /\ server[j].purchaseDate = requests[k].purchaseDate
    ELSE IF requests[k].method = "DELETE"
      THEN requests[k].id \notin idsOf(server)
      ELSE \E j \in 1..Len(server) :
             /\ server[j].id = requests[k].id
             /\ \A f \in DOMAIN requests[k].body : server[j][f] = requests[k].body[f]

\* the requests are those of the operation alone: no request undoes another
NoRollback ==
  IF IsCreate THEN \A k \in 1..Len(requests) : "method" \notin DOMAIN requests[k]
  ELSE \A k, j \in 1..Len(requests) : requests[k].method = requests[j].method

\* C11: a create, a batch edit and a batch delete send one request for each target;
\* the handler goes on as after a success only when the store holds the effect of
\* every request; otherwise it shows the failure, leaves its dialog open and sends
\* nothing that undoes the requests that were carried out.
C11_JoinWithoutRollback ==
  IsJoin =>
    /\ Len(requests) = TargetCount
    /\ NoRollback
    /\ JoinSucceeded => \A k \in 1..Len(requests) : EffectInStore(k)
    /\ ~JoinSucceeded => (call.alert /\ activeModal # Null)

\* C11: a create of four installments failed and the store holds two of them
C11_Witness ==
  /\ IsJoin /\ IsCreate /\ ~JoinSucceeded
  /\ Len(requests) = 4
  /\ Cardinality({ k \in 1..4 : EffectInStore(k) }) = 2

\* C11: a batch delete of a group of four failed after it deleted some of them
C11_WitnessDelete ==
  /\ IsJoin /\ IsBatchDelete /\ ~JoinSucceeded
  /\ Len(requests) = 4
  /\ Cardinality({ k \in 1..4 : EffectInStore(k) }) \in 1..3

\* C11: a batch edit of a group failed; the ledger is as before
C11_WitnessEdit ==
  /\ IsJoin /\ IsBatchEdit /\ ~JoinSucceeded
  /\ Len(requests) > 1

(***************************************************************************)
(* The list of the dashboard and what is computed from it.                 *)
(***************************************************************************)
\* the names a row is displayed with
CategoryDisplayName(t) ==
  IF t.categoryName # <<>> THEN t.categoryName ELSE getCategoryName(t.categoryId)

OwnerDisplayName(t) ==
  IF t.ownerName # <<>> THEN t.ownerName ELSE getOwnerName(t.ownerId)

\* one text contains the other, whatever the case of the letters
ContainsIgnoringCase(str, part) ==
  \E at \in 1..(Len(str) - Len(part) + 1) :
    \A k \in 1..Len(part) :
      toLowerCaseText(<<str[at + k - 1]>>) = toLowerCaseText(<<part[k]>>)

\* the text searched for: what was typed, without the blanks around it
TypedText == trim(searchQuery)

\* the row satisfies every filter that is active
SatisfiesFilters(t) ==
  /\ t.effectiveMonth = selectedMonth
  /\ t.effectiveYear = selectedYear
  /\ selectedDay = 0 \/ t.purchaseDate.d = selectedDay
  /\ selectedCardId = Null \/ t.creditCardId = selectedCardId
  /\ selectedOwnerId = Null \/ t.ownerId = selectedOwnerId
  /\ statusFilter = "all" \/ (statusFilter = "paid") = t.paid
  /\ \/ TypedText = <<>>
     \/ ContainsIgnoringCase(text(t.description), TypedText)
     \/ ContainsIgnoringCase(CategoryDisplayName(t), TypedText)
     \/ ContainsIgnoringCase(OwnerDisplayName(t), TypedText)

\* C12: the list holds exactly the loaded transactions that satisfy every active
\* filter, each once; none of another effective month or year is ever in it.
C12_FilteredView ==
  /\ idsOf(filtered) = { transactions[k].id : k \in { j \in 1..Len(transactions) :
                                                     SatisfiesFilters(transactions[j]) } }
  /\ Len(filtered) = Cardinality(idsOf(filtered))
  /\ \A k \in 1..Len(filtered) : \E j \in 1..Len(transactions) : filtered[k] = transactions[j]
  /\ \A k \in 1..Len(filtered) :
       filtered[k].effectiveMonth = selectedMonth /\ filtered[k].effectiveYear = selectedYear

\* C12: a loaded purchase billed next month is kept out of the list of this month,
\* while two filters are set and another row passes them
C12_Witness ==
  /\ \E j \in 1..Len(transactions) :
       /\ transactions[j].effectiveMonth # selectedMonth
       /\ transactions[j].ownerId = selectedOwnerId
  /\ selectedOwnerId # Null
  /\ searchQuery = <<" ", "T", "V", " ">>
  /\ Len(filtered) = 1
  /\ Len(transactions) > 2

\* C12: the day filter and the status filter leave one row of several
C12_WitnessDay ==
  /\ selectedDay = 20 /\ statusFilter = "pending"
  /\ Len(filtered) = 1
  /\ Len(transactions) > 2

\* the filtered rows of a type
FilteredOfType(type) == SelectSeq(filtered, LAMBDA t : t.type = type)

\* C13 as stated: with a card selected, the income and the balance are both zero.
C13_ZeroWithCard ==
  selectedCardId # Null => (totalIncome = 0 /\ balance = 0)

\* C13: with a card selected the income is zero, whatever incomes the list holds, and
\* the balance is the expense total of the list, negated: zero only when the list
\* holds no expense amount.
C13_IncomeZeroBalanceNegated ==
  selectedCardId # Null =>
    /\ totalIncome = 0
    /\ totalExpense = SumAmounts(FilteredOfType("EXPENSE"))
    /\ balance = 0 - totalExpense

\* C13: a card is selected and the list holds an income and an expense of it
C13_Witness ==
  /\ selectedCardId # Null
  /\ FilteredOfType("INCOME") # <<>>
  /\ FilteredOfType("EXPENSE") # <<>>
  /\ balance < 0

\* the category references among the filtered expenses (Null: no reference)
FilteredCategories ==
  { FilteredOfType("EXPENSE")[i].categoryId : i \in 1..Len(FilteredOfType("EXPENSE")) }

\* the entry of the breakdown for a category reference
EntriesOf(c) ==
  { i \in 1..Len(categoryChartData) :
      categoryChartData[i].key = (IF c = Null THEN "Outros" ELSE c) }

\* the sum of the filtered expenses of a category reference
ExpenseOf(c) ==
  SumAmounts(SelectSeq(FilteredOfType("EXPENSE"), LAMBDA t : t.categoryId = c))

\* one entry per category reference among the filtered expenses, with their sum
OneEntryPerCategory ==
  /\ Len(categoryChartData) = Cardinality(FilteredCategories)
  /\ \A c \in FilteredCategories :
       /\ Cardinality(EntriesOf(c)) = 1
       /\ \A i \in EntriesOf(c) : categoryChartData[i].value = ExpenseOf(c)

\* entries in non-increasing order of value
NonIncreasing ==
  \A i \in 1..Len(categoryChartData) : \A j \in 1..Len(categoryChartData) :
    i < j => categoryChartData[i].value >= categoryChartData[j].value

\* C14 as stated: the breakdown has one entry per category reference of the filtered
\* expenses, valued with their sum, in non-increasing order, and the entry of a
\* missing reference or of one that is not a loaded category is labelled 'Outros'
\* in the neutral colour.
C14_Breakdown ==
  /\ OneEntryPerCategory
  /\ NonIncreasing
  /\ \A c \in FilteredCategories :
       (c = Null \/ c \notin DOMAIN CategoryTable) =>
         \A i \in EntriesOf(c) :
           /\ categoryChartData[i].label = Chars["Outros"]
           /\ categoryChartData[i].color = "#cbd5e1"

\* the part of C14 the dashboard keeps: grouping, sums, order, the neutral colour,
\* and the label 'Outros' for a missing reference
C14_BreakdownKept ==
  /\ OneEntryPerCategory
  /\ NonIncreasing
  /\ \A c \in FilteredCategories :
       (c = Null \/ c \notin DOMAIN CategoryTable) =>
         \A i \in EntriesOf(c) :
           /\ c = Null => categoryChartData[i].label = Chars["Outros"]
           /\ categoryChartData[i].color = "#cbd5e1"

\* two entries, the category of the first filtered expense sorted last with the sum
\* of its two expenses
C14_KeptWitness ==
  /\ Len(categoryChartData) = 2
  /\ chartKey(Head(FilteredOfType("EXPENSE"))) = categoryChartData[2].key
  /\ categoryChartData[1].value > categoryChartData[2].value
  /\ categoryChartData[2].value = 35000 * Scale
  /\ categoryChartData[2].label = Chars["Casa"]

\* the entry of the expenses without category reference, labelled 'Outros'
C14_MissingWitness ==
  /\ Len(categoryChartData) = 1
  /\ categoryChartData[1].key = "Outros"
  /\ categoryChartData[1].label = Chars["Outros"]

\* an entry of a reference that is not a loaded category, labelled with the reference
C14_UnknownWitness ==
  \E i \in 1..Len(categoryChartData) :
    categoryChartData[i].key = "cat9" /\ categoryChartData[i].label = Chars["cat9"]

\* the billing rule on a loaded record: the month after the purchase month when the
\* purchase day is on or after the closing day of its card, else the purchase month
BillingPeriodOf(t) ==
  IF t.purchaseDate.d >= cards[t.creditCardId]
    THEN MonthIndex(t.purchaseDate) + 1
    ELSE MonthIndex(t.purchaseDate)

\* the loaded expenses that have a card attached
LoadedCardExpenses ==
  { i \in 1..Len(transactions) :
      transactions[i].type = "EXPENSE" /\ transactions[i].creditCardId # Null }

\* C15 as stated: every loaded expense with a card has the effective month and year
\* of the billing period the billing rule implies for its purchase day and the
\* closing day of its card.
C15_BillingPeriodOnLoad ==
  \A i \in LoadedCardExpenses :
    transactions[i].effectiveYear * 12 + transactions[i].effectiveMonth
      = BillingPeriodOf(transactions[i])

\* a loaded card expense bought after the closing day that the store returned with
\* its billing date: it has the billing period of the rule, not the purchase month
C15_BilledWitness ==
  \E i \in LoadedCardExpenses :
    /\ transactions[i].id = "t6"
    /\ transactions[i].effectiveYear * 12 + transactions[i].effectiveMonth
         = MonthIndex(transactions[i].purchaseDate) + 1
    /\ BillingPeriodOf(transactions[i]) = MonthIndex(transactions[i].purchaseDate) + 1

\* a loaded card expense bought after the closing day that the store returned
\* without billing date: it has the purchase month
C15_UnbilledWitness ==
  \E i \in LoadedCardExpenses :
    /\ transactions[i].id = "t1"
    /\ transactions[i].effectiveYear * 12 + transactions[i].effectiveMonth
         = MonthIndex(transactions[i].purchaseDate)
    /\ BillingPeriodOf(transactions[i]) = MonthIndex(transactions[i].purchaseDate) + 1

\* the group ids among records
GroupsOf(rs) == { rs[i].groupId : i \in 1..Len(rs) } \ {Null}

\* the members of a group among records
MembersOf(rs, g) == { i \in 1..Len(rs) : rs[i].groupId = g }

\* the members of every group have one category, one owner and one card
SharedFields(rs) ==
  \A g \in GroupsOf(rs) : \A i \in MembersOf(rs, g) : \A j \in MembersOf(rs, g) :
    /\ rs[i].categoryId = rs[j].categoryId
    /\ rs[i].ownerId = rs[j].ownerId
    /\ rs[i].creditCardId = rs[j].creditCardId

\* the last handler was the submission of the edit form
IsEditSubmit(c) ==
  /\ c.rev = "dashboard" /\ c.name = "onSubmitTransaction"
  /\ "scope" \in DOMAIN c

\* C16 as stated: in every reachable state the members of every group, in the store
\* and in the ledger, share category, owner and card.
C16_GroupsShareFields ==
  SharedFields(server) /\ SharedFields(transactions)

\* C16: creations, scoped deletions and pay actions keep category, owner and card
\* shared in every group, in the store and in the ledger; the submission of an edit
\* gives the category, owner and card of the form to the members its scope resolves
\* to, so after an edit of scope 'all' whose updates all succeeded the members of the
\* group share them, and after an edit of a narrower scope they may differ.
C16_SharedUnlessScopedEdit ==
  [][ /\ (C16_GroupsShareFields /\ ~IsEditSubmit(call')) => C16_GroupsShareFields'
      /\ (IsEditSubmit(call') /\ call'.scope = "all" /\ call'.ok) =>
            \A i \in MembersOf(server', call'.transaction.groupId) :
              /\ requests' # <<>>
              /\ server'[i].categoryId = requests'[1].body.categoryId
              /\ server'[i].ownerId = requests'[1].body.ownerId
              /\ server'[i].creditCardId = requests'[1].body.creditCardId
    ]_vars

\* an edit of scope 'all' gave a new category to the three members of a group
C16_Witness ==
  /\ IsEditSubmit(call) /\ call.scope = "all" /\ call.ok
  /\ Cardinality(MembersOf(server, call.transaction.groupId)) = 3
  /\ \A i \in MembersOf(server, call.transaction.groupId) :
       server[i].categoryId \in EditCategories

\* a group survived a scoped delete and a pay action with its fields shared
C16_WitnessDeletePay ==
  /\ call.rev = "dashboard" /\ call.name = "executeBatchAction"
  /\ call.type = "pay" /\ call.ok
  /\ \E g \in GroupsOf(server) : Cardinality(MembersOf(server, g)) = 1
  /\ C16_GroupsShareFields

\* the installment numbers of records
NumbersOf(ts) == { ts[i].installmentCurrent : i \in 1..Len(ts) }

\* the numbers are 1..N without gap or duplicate
Contiguous(ts) == NumbersOf(ts) = 1..Len(ts)

\* the last handler was a delete of the AppComponent on a numbered group
IsLegacyDelete ==
  call.rev = "legacy" /\ call.name = "executeBatchAction" /\ call.type = "delete"

\* the members of the group the delete left
Remaining == SelectSeq(call.group, LAMBDA t : t.id \notin idsOf(requests))

\* the last handler of the dashboard fetched the members of a group
IsGroupFetch ==
  call.rev = "dashboard" /\ "fetched" \in DOMAIN call /\ call.fetched

\* C17 as stated: the members of a group as the dashboard fetches them, and the
\* members a scoped delete leaves of a group numbered 1..N, have the numbers 1..M
\* without gap or duplicate.
C17_ContiguousNumbers ==
  /\ IsGroupFetch => Contiguous(call.group)
  /\ (IsLegacyDelete /\ Contiguous(call.group)) => Contiguous(Remaining)

\* C17: a scoped delete on a group numbered 1..N removes the numbers its scope
\* selects and renumbers nothing: 'all' leaves no member, 'future' leaves the numbers
\* below the target's, which are contiguous from 1, 'past' leaves the numbers above
\* the target's and 'single' leaves every number but the target's, so a gap unless
\* the target was the last.  The members the dashboard fetches, whose records were
\* stored from payloads without number, are all numbered 1.
C17_DeleteLeavesNumbers ==
  /\ (IsLegacyDelete /\ Contiguous(call.group)) =>
       LET cur == call.transaction.installmentCurrent
           n   == Len(call.group)
       IN /\ Len(Remaining) = Cardinality(NumbersOf(Remaining))
          /\ call.scope = "all" => NumbersOf(Remaining) = {}
          /\ call.scope = "future" => NumbersOf(Remaining) = 1..(cur - 1)
          /\ call.scope = "past" => NumbersOf(Remaining) = (cur + 1)..n
          /\ call.scope = "single" => NumbersOf(Remaining) = (1..n) \ {cur}
  /\ IsGroupFetch => NumbersOf(call.group) \subseteq {1}

\* the second of three installments was deleted alone: the numbers left are 1 and 3
C17_Witness ==
  /\ IsLegacyDelete /\ Contiguous(call.group)
  /\ call.scope = "single"
  /\ NumbersOf(Remaining) = {1, 3}

\* the third of five installments and the later ones were deleted: 1 and 2 are left
C17_WitnessFuture ==
  /\ IsLegacyDelete /\ Contiguous(call.group)
  /\ call.scope = "future"
  /\ NumbersOf(Remaining) = {1, 2}
  /\ Len(call.group) = 5

\* a group fetched by the dashboard whose three members are all numbered 1
C17_WitnessLoaded ==
  IsGroupFetch /\ Len(call.group) = 3 /\ NumbersOf(call.group) = {1}

(***************************************************************************)
(* Failing requests: the notice, the ledger, the requests sent.            *)
(***************************************************************************)
\* the GET of fetchGroup failed in the last handler
FetchFailed == "fetchFailed" \in DOMAIN call

\* a request of the last handler was not carried out
RequestFailed == \E k \in 1..Len(requests) : ~EffectInStore(k)

\* the last handler ended in an error callback or, after a failed fetch, nowhere
EndedInError == call.rev # "none" /\ "ok" \in DOMAIN call /\ ~call.ok /\ requests # <<>>

\* the last handler showed alert(...)
Notice == "alert" \in DOMAIN call /\ call.alert

\* C18 as stated: whenever a request of a user action fails, the fetch of the group
\* before a batch action included, the user sees a failure notice.
C18_FailureNotice ==
  (FetchFailed \/ RequestFailed \/ EndedInError) => Notice

\* the part of C18 the dashboard keeps: a failed create, update, payment toggle or
\* delete request ends in an alert
C18_NoticeKept ==
  (RequestFailed \/ EndedInError) => Notice

\* a batch delete whose second request failed showed the alert
C18_KeptWitness ==
  /\ IsBatchDelete /\ RequestFailed /\ Notice
  /\ Len(requests) = 4

\* the fetch of the group failed before a batch delete: no notice, and the dialog
\* stays in its saving state
C18_FetchWitness ==
  FetchFailed /\ IsBatchDelete /\ ~Notice /\ isSaving

\* the last handler did not end as after a success
Unsuccessful == FetchFailed \/ RequestFailed \/ EndedInError

\* C19: a create, update, payment toggle or delete of which a request failed, or
\* whose group could not be fetched, leaves the ledger in memory as it was before
\* the action: the ledger is loaded or patched only in the next callbacks.
C19_LedgerKeptOnFailure ==
  [][ Unsuccessful' => transactions' = transactions ]_vars

\* C19: a create failed after the installment of the month on display was stored;
\* the ledger does not show it
C19_Witness ==
  /\ IsCreate /\ ~JoinSucceeded /\ RequestFailed
  /\ loadByMonth(server, selectedMonth, selectedYear) # <<>>
  /\ transactions = <<>>

\* C19: a payment toggle failed; the row of the ledger has the flag it had
C19_WitnessToggle ==
  /\ call.rev = "dashboard" /\ call.name \in {"executeTogglePaid", "executeBatchAction"}
  /\ RequestFailed /\ Notice
  /\ Len(requests) = 1 /\ "paid" \in DOMAIN requests[1].body
  /\ \E i \in 1..Len(transactions) :
       transactions[i].id = requests[1].id /\ transactions[i].paid # requests[1].body.paid

\* the last handler was a create whose POSTs went through the interceptor
IsInterceptedCreate == call.rev = "app" /\ "answers" \in DOMAIN call

\* how many times the create request of installment k was sent
SendsOf(k) == Cardinality({ i \in 1..Len(requests) : requests[i] = call.bodies[k] })

\* C20 as stated: within one submission each installment's create request is sent
\* at most once.
C20_SentOnce ==
  IsInterceptedCreate => \A k \in 1..Len(call.bodies) : SendsOf(k) <= 1

\* C20: within one submission the create request of every installment is sent at
\* least once and at most RetryCount + 1 times, and again only after every earlier
\* send of it failed; the submission succeeds when the last send of every request
\* was answered, and shows its failure only after some request failed
\* RetryCount + 1 times.
C20_RetriedByInterceptor ==
  IsInterceptedCreate =>
    /\ Len(requests) >= Len(call.bodies)
    /\ \A k \in 1..Len(call.bodies) :
         /\ SendsOf(k) \in 1..(RetryCount + 1)
         /\ \A j \in 1..(SendsOf(k) - 1) : ~call.answers[k][j]
         /\ call.ok => call.answers[k][SendsOf(k)]
    /\ call.alert <=> ~call.ok
    /\ ~call.ok => \E k \in 1..Len(call.bodies) :
                     /\ SendsOf(k) = RetryCount + 1
                     /\ \A j \in 1..(RetryCount + 1) : ~call.answers[k][j]

\* C20: a submission succeeded after the second installment was sent three times
C20_Witness ==
  /\ IsInterceptedCreate /\ call.ok
  /\ Len(call.bodies) = 2
  /\ SendsOf(1) = 1 /\ SendsOf(2) = 3
  /\ Len(server) >= 2

\* C20: a submission failed after the first installment was sent four times
C20_WitnessFailed ==
  /\ IsInterceptedCreate /\ call.alert
  /\ SendsOf(1) = RetryCount + 1
  /\ SendsOf(2) = 2

(***************************************************************************)
(* The amounts of a split.                                                 *)
(***************************************************************************)
\* x is the quotient total / n to the nearest tick
IsQuotient(x, total, n) == 2 * Abs(n * x - total) <= n

\* C21: every request of one call carries the same amount, the total amount of the
\* call divided by the number of installments it is split into; the last carries
\* what the first carries, whatever the division leaves over.
C21_EqualAmounts ==
  call.rev # "none" =>
    \A i \in 1..Len(requests) :
      /\ IsQuotient(requests[i].amount, call.amount, Len(requests))
      /\ requests[i].amount = requests[1].amount

\* C21: three installments of an amount that three does not divide
C21_Witness ==
  /\ call.rev = "app"
  /\ Len(requests) = 3
  /\ 3 * requests[1].amount # call.amount
  /\ requests[3].amount = requests[1].amount

(***************************************************************************)
(* The description of an installment in the edit form.                     *)
(***************************************************************************)
\* the last handler submitted the edit form for the row alone, and sent its update
IsSingleEdit ==
  IsEditSubmit(call) /\ call.scope = "single" /\ requests # <<>>

\* the row that was opened in the form is an installment with its '(i/N)' suffix
EditedInstallment ==
  call.transaction.groupId # Null /\ call.transaction.description.sfx # <<>>

\* C22 as stated: the form of an installment created with base description D holds
\* D, without the '(i/N)' suffix, and that is what its submission sends; no update
\* stores a description with a second or another suffix.
C22_SuffixStripped ==
  /\ (IsSingleEdit /\ EditedInstallment) =>
       requests[1].body.description = Desc(call.transaction.description.base)
  /\ \A j \in 1..Len(server) : Len(server[j].description.sfx) <= 1

\* the part of C22 the dashboard keeps: the description an update sends for a row is
\* the description that row has, suffix included, so no stored description has two
\* suffixes or another one
C22_SuffixKept ==
  /\ IsEditSubmit(call) =>
       \A k \in 1..Len(requests) :
         \E t \in {call.transaction} \cup {call.group[i] : i \in 1..Len(call.group)} :
           t.id = requests[k].id /\ requests[k].body.description = t.description
  /\ \A j \in 1..Len(server) : Len(server[j].description.sfx) <= 1

\* the first of three installments was edited alone: the update carries 'tv (1/3)'
C22_KeptWitness ==
  /\ IsSingleEdit /\ EditedInstallment
  /\ requests[1].body.description = WithSuffix(Desc("tv"), 1, 3)

(***************************************************************************)
(* C23: the order of the group on which 'future' and 'past' are resolved.  *)
(***************************************************************************)
\* a comes before b, or may: by installmentCurrent, then by purchase date
InOrder(a, b) ==
  \/ a.installmentCurrent < b.installmentCurrent
  \/ /\ a.installmentCurrent = b.installmentCurrent
     /\ getTime(a.purchaseDate) <= getTime(b.purchaseDate)

OrderedGroup(group) == \A i \in 1..Len(group) - 1 : InOrder(group[i], group[i + 1])

\* the last handler resolved a scope on the members of a group
ResolvedGroup == call # NoCall /\ "group" \in DOMAIN call

\* C23: the members of a group, as fetchGroup or getGroupTransactions hands them to
\* the handler that resolves 'future' and 'past', are in ascending order of
\* installmentCurrent, and members with the same installmentCurrent are in
\* ascending order of purchase date.
C23_GroupOrder == ResolvedGroup => OrderedGroup(call.group)

\* the dashboard fetched three installments of three different months
C23_Witness ==
  /\ IsGroupFetch /\ Len(call.group) = 3 /\ call.scope \in {"future", "past"}
  /\ \A i \in 1..2 : getTime(call.group[i].purchaseDate) < getTime(call.group[i + 1].purchaseDate)

(***************************************************************************)
(* C24: toggleSort.                                                        *)
(***************************************************************************)
IsToggleSort(c) == c.rev = "dashboard" /\ c.name = "toggleSort"

Flipped(direction) == IF direction = "asc" THEN "desc" ELSE "asc"

\* C24: toggleSort(k) sets the key to k; when k was not the current key the
\* direction becomes desc for 'amount' and asc for any other key; when k was the
\* current key the direction flips; and a second consecutive toggleSort with the
\* current key puts back the configuration of before the first.
C24_ToggleSort ==
  [][ (IsToggleSort(call') /\ call' # call) =>
        LET k == call'.key
        IN /\ sortConfig'.key = k
           /\ k # sortConfig.key =>
                sortConfig'.direction = IF k = "amount" THEN "desc" ELSE "asc"
           /\ k = sortConfig.key => sortConfig'.direction = Flipped(sortConfig.direction)
           /\ (k = sortConfig.key /\ IsToggleSort(call) /\ call.key = call.current.key) =>
                sortConfig' = call.current ]_vars

\* 'amount' was toggled three times in a row: desc, asc, and desc again
C24_Witness ==
  /\ IsToggleSort(call) /\ call.key = "amount"
  /\ call.current = [key |-> "amount", direction |-> "asc"]
  /\ sortConfig = [key |-> "amount", direction |-> "desc"]

(***************************************************************************)
(* C25: the retries of a request.                                          *)
(***************************************************************************)
IsLoadCallback(c) == c.rev = "dashboard" /\ c.name = "loadByMonth"

\* no request is sent more than RetryCount + 1 times, and the error callback of
\* the caller runs for a request only after its last send failed
RetriesBounded ==
  /\ \A i \in 1..Len(loads) :
       /\ loads[i].attempt \in 1..(RetryCount + 1)
       /\ loads[i].phase = "failed" => loads[i].attempt = RetryCount + 1
  /\ (IsLoadCallback(call) /\ call.alert) =>
       /\ call.attempt = RetryCount + 1
       /\ loads[call.load].phase = "failed"

\* C25: a request that errors or times out is sent again, at most RetryCount times
\* (RetryCount + 1 sends in all); when the last send fails too the failure reaches
\* the caller, whose error callback shows it; and every request comes to an end,
\* answered or failed, so none is retried for ever.
C25_BoundedRetry ==
  /\ []RetriesBounded
  /\ \A i \in 1..MaxLoads :
       (Len(loads) >= i /\ Outstanding(loads[i])) ~> (Len(loads) >= i /\ ~Outstanding(loads[i]))

\* a load failed on its fourth send and the alert of loadByMonth was shown
C25_Witness ==
  /\ IsLoadCallback(call) /\ call.alert
  /\ loads[call.load] = [month |-> TodayMonth, year |-> TodayYear,
                         attempt |-> RetryCount + 1, phase |-> "failed"]

\* a load was answered on its fourth send
C25_WitnessAnswered ==
  /\ IsLoadCallback(call) /\ ~call.alert
  /\ loads[call.load].attempt = RetryCount + 1 /\ loads[call.load].phase = "done"

(***************************************************************************)
(* C26: the paid flag of a new transaction.                                *)
(***************************************************************************)
ImmediateMethods == {"PIX", "CASH", "DEBIT_CARD"}

\* the last handler was the create branch of the dashboard's onSubmitTransaction
IsDashboardCreate == call.rev = "app" /\ requests # <<>>

\* C26 as stated: a create request has paid = true when it is an income, or an
\* expense paid by PIX, CASH or DEBIT_CARD, and paid = false when it is an expense
\* paid by CREDIT_CARD or BOLETO.
C26_PaidByMethod ==
  IsDashboardCreate =>
    \A i \in 1..Len(requests) :
      LET r == requests[i]
      IN /\ (r.type = "INCOME" \/ (r.type = "EXPENSE" /\ r.paymentMethod \in ImmediateMethods))
              => r.paid
         /\ (r.type = "EXPENSE" /\ r.paymentMethod \in {"CREDIT_CARD", "BOLETO"}) => ~r.paid

\* what the dashboard does: an income is submitted as paid, an expense as not paid,
\* whatever its payment method
C26_PaidByType ==
  IsDashboardCreate =>
    \A i \in 1..Len(requests) : requests[i].paid <=> requests[i].type = "INCOME"

\* an expense paid by PIX was submitted as not paid
C26_PixWitness ==
  /\ IsDashboardCreate
  /\ requests[1].type = "EXPENSE" /\ requests[1].paymentMethod = "PIX" /\ ~requests[1].paid

(***************************************************************************)
(* C27: the saving flag.  A handler of the model runs with its callbacks   *)
(* and with the timer of handleModalClose, so the flag a handler leaves is *)
(* the flag the dashboard keeps until another handler sets it.             *)
(***************************************************************************)
\* the last handler set isSaving to true: a create, an edit, a delete or a pay
SetSaving ==
  \/ call.rev = "app"
  \/ /\ call.rev = "dashboard"
     /\ \/ call.name = "onSubmitTransaction"
        \/ call.name = "executeBatchAction" /\ call.type \in {"delete", "pay"}

\* C27 as stated: when a create, an edit, a batch edit, a delete or a pay is over,
\* however the fetch of the group and the requests ended, isSaving is false again.
C27_SavingReset == SetSaving => ~isSaving

\* the part of C27 the dashboard keeps: the flag is false again after a create, an
\* edit of one row, a delete and a pay, unless the group could not be fetched
C27_ResetKept == (SetSaving /\ ~FetchFailed /\ ~IsBatchEdit) => ~isSaving

\* a failed delete of a whole group ended with the flag put back
C27_KeptWitness ==
  IsBatchDelete /\ call.scope = "all" /\ RequestFailed /\ Notice /\ ~isSaving

\* an edit of a whole group succeeded and the flag is still set
C27_EditWitness ==
  IsBatchEdit /\ call.scope = "all" /\ call.ok /\ Len(requests) = 4 /\ activeModal = Null /\ isSaving

(***************************************************************************)
(* C28: overlapping loads of a month.                                      *)
(***************************************************************************)
\* every GET of loadByMonth was answered, none is outstanding and none failed
AllAnswered == loads # <<>> /\ \A i \in 1..Len(loads) : loads[i].phase = "done"

\* the ledger is what the API holds for the month and year on display
LedgerOfSelectedMonth == transactions = loadByMonth(server, selectedMonth, selectedYear)

\* C28 as stated: when loads of a month overlapped and every response has arrived,
\* the ledger holds the transactions of the selected month and year.
C28_LedgerOfSelectedMonth == AllAnswered => LedgerOfSelectedMonth

\* what the service keeps: the ledger is the answer that arrived last, so it is the
\* selected month's when the answer to the request issued last arrives
C28_LastAnswerWins ==
  /\ (IsLoadCallback(call) /\ ~call.alert) =>
       transactions = loadByMonth(server, loads[call.load].month, loads[call.load].year)
  /\ (IsLoadCallback(call) /\ ~call.alert /\ call.load = Len(loads)) => LedgerOfSelectedMonth

\* the month was changed while the reload after a create was outstanding, and the
\* answers arrived in the order of the requests: the ledger is the new month's
C28_KeptWitness ==
  /\ AllAnswered /\ Len(loads) = 2 /\ created = 1
  /\ IsLoadCallback(call) /\ call.load = 2
  /\ selectedMonth # TodayMonth /\ transactions # <<>>

\* two changes of month, the second answered first: the ledger on display for the
\* month of today is the next month's
C28_StaleWitness ==
  /\ AllAnswered /\ Len(loads) = 2 /\ created = 0
  /\ IsLoadCallback(call) /\ call.load = 1
  /\ selectedMonth = TodayMonth
  /\ transactions = loadByMonth(server, loads[1].month, loads[1].year)
  /\ ~LedgerOfSelectedMonth

(***************************************************************************)
(* C29: what a create payload never combines.                              *)
(***************************************************************************)
\* C29: no create payload of type INCOME has a card, a groupId or belongs to a
\* submission of more than one installment, and every create payload with a card
\* has type EXPENSE and payment method CREDIT_CARD.
C29_PayloadCombinations ==
  IsDashboardCreate =>
    \A i \in 1..Len(requests) :
      LET r == requests[i]
      IN /\ r.type = "INCOME" =>
              /\ r.creditCardId = Null /\ r.groupId = Null
              /\ Len(requests) = 1 /\ r.description.sfx = <<>>
         /\ r.creditCardId # Null =>
              r.type = "EXPENSE" /\ r.paymentMethod = "CREDIT_CARD"

\* a card purchase in three installments: a card, a group, CREDIT_CARD
C29_Witness ==
  /\ IsDashboardCreate /\ Len(requests) = 3
  /\ requests[3].creditCardId = "c2" /\ requests[3].groupId # Null
  /\ requests[3].type = "EXPENSE" /\ requests[3].paymentMethod = "CREDIT_CARD"

\* an income was submitted: one payload, without card or group
C29_WitnessIncome ==
  /\ IsDashboardCreate /\ Len(requests) = 1
  /\ requests[1].type = "INCOME" /\ requests[1].paymentMethod = "CREDIT_CARD"
  /\ requests[1].creditCardId = Null /\ requests[1].groupId = Null

(***************************************************************************)
(* C30: what the calendar modal leaves alone.                              *)
(***************************************************************************)
\* the step is a prevMonth() or a nextMonth() of the calendar
IsMoveMonth(c) == c.rev = "calendar" /\ c.name \in {"prevMonth", "nextMonth"}

\* the step opened the calendar modal
IsOpenCalendar(c) ==
  c.rev = "dashboard" /\ c.name = "openModal" /\ "type" \in DOMAIN c /\ c.type = "calendar"

\* C30: loading the calendar and moving it to the previous or the next month
\* changes the calendar's own transaction list and view date and nothing else: the
\* ledger of the dashboard, the selected month and year and the day filter are as
\* before, and stay so until a day is selected.
C30_CalendarFrame ==
  [][ /\ (IsMoveMonth(call') /\ call' # call) =>
           UNCHANGED <<cards, serverVars, created, transactions, viewVars, modalVars, isSaving,
                       sortConfig, loads>>
      /\ (IsOpenCalendar(call') /\ call' # call) =>
           UNCHANGED <<cards, serverVars, created, transactions, viewVars, isSaving,
                       sortConfig, loads>>
      /\ (activeModal = "calendar" /\ <<transactions, selectedMonth, selectedYear, selectedDay>>'
                                       # <<transactions, selectedMonth, selectedYear, selectedDay>>)
           => call'.name = "onDashboardCalendarSelect" ]_vars

\* the calendar was moved to the next month and shows its purchase, while the
\* dashboard still shows the month of today and its ledger
C30_Witness ==
  /\ IsMoveMonth(call) /\ call.name = "nextMonth" /\ call.answered
  /\ activeModal = "calendar"
  /\ viewDate = [y |-> TodayYear, m |-> TodayMonth + 1, d |-> 1]
  /\ calendarTransactions # <<>> /\ transactions # <<>>
  /\ calendarTransactions # transactions
  /\ selectedMonth = TodayMonth /\ selectedDay = 0

\* a day of the next month was selected in the calendar: the dashboard follows
C30_WitnessSelected ==
  /\ call.rev = "dashboard" /\ call.name = "onDashboardCalendarSelect"
  /\ selectedMonth = TodayMonth + 1 /\ selectedDay = 10 /\ transactions # <<>>
  /\ viewDate.m = TodayMonth + 1

====
